---- MODULE Spec2Model ----
(***************************************************************************)
(* MediGuide: the React client's upload / status-polling flow              *)
(* (ScanScreen, ScanningScreen), the API client (apiRequest, uploadReport) *)
(* and the Supabase schema with its row-level-security policies.           *)
(***************************************************************************)
EXTENDS Integers, FiniteSets, Sequences, Bags, TLC

\* ------------------------------------------------------------------------
\* Bounds of the model
\* ------------------------------------------------------------------------
MaxReports == 2      \* reports the backend creates in one run
MaxImages == 1       \* images held by ScanScreen.capturedImages
MaxStale == 1        \* uploads pending in unmounted ScanScreen instances

\* ------------------------------------------------------------------------
\* Program constants
\* ------------------------------------------------------------------------
NoReport == 0                      \* currentReportId === null
ReportIds == 1..MaxReports
LoopIds == 1..MaxReports           \* runs of ScanningScreen's effect

\* reports.status CHECK constraint and DEFAULT
ReportStatuses == {"processing", "completed", "failed"}
ReportStatusDefaultCompleted == "completed"
ReportStatusDefault == "processing"
Absent == "absent"                 \* no row with that id

ProgressStep == 5
ProgressCap == 90
ProgressDone == 100

Screens == {"home", "history", "family", "scan", "scanning", "scan-error", "report-result"}

\* toast.error / toast.success of ScanScreen.handleScan and ScanningScreen.pollStatus
NoToast == "none"
SelectImageToast == "Please select at least one image"
UploadedToast == "Report uploaded successfully! Processing..."
UploadErrorToast == "error.message || 'Failed to upload report. Please try again.'"
ProcessingFailedToast == "Report processing failed. Please try again."
LoadFailedToast == "Failed to load reports. Please try again."
SharedDeleteToast == "Cannot delete shared reports"
DeletedToast == "Reports deleted successfully"
DeleteFailedToast == "Failed to delete reports"
Toasts == {NoToast, SelectImageToast, UploadedToast, UploadErrorToast, ProcessingFailedToast,
           LoadFailedToast, SharedDeleteToast, DeletedToast, DeleteFailedToast,
           "Starting fresh analysis...", "Failed to start analysis"}

\* ------------------------------------------------------------------------
\* HistoryScreen: values of its state and of the listReports query
\* ------------------------------------------------------------------------
NoSynthesis == "null"              \* ReportSynthesis: synthesis === null
RetryInfoToast == "Starting fresh analysis..."
RetryFailedToast == "Failed to start analysis"

MaxListed == 3       \* reports a listReports answer can hold
MaxLoads == 1        \* listReports calls awaiting their answer
MaxDeletes == 1      \* handleDelete calls awaiting their deleteReport calls
CompareLimit == 2    \* reports that compare mode lets the user select

ListedIds == 1..MaxListed
NoMember == "null"                 \* viewingMember === null
Members == {"u2"}                  \* viewingMember.profiles.id of a connected member
Undefined == "undefined"
NoFilter == "null"                 \* openFilter === null
FilterKeys == {"type", "flag", "time"}
InitialFilters == [type |-> "ALL TYPES", flag |-> "FLAG LEVEL", time |-> "TIME"]
\* filterOptions; of the twelve report types three are kept
filterOptions ==
  [type |-> {"All Types", "CBC", "Lipid Panel"},
   flag |-> {"All", "Red", "Yellow", "Green"},
   time |-> {"All Time", "Last 7 Days", "Last Month", "Last 3 Months"}]

\* String.prototype.toUpperCase on the option labels
toUpperCase(str) ==
  CASE str = "All Types" -> "ALL TYPES"
    [] str = "CBC" -> "CBC"
    [] str = "Lipid Panel" -> "LIPID PANEL"
    [] str = "All" -> "ALL"
    [] str = "Red" -> "RED"
    [] str = "Yellow" -> "YELLOW"
    [] str = "Green" -> "GREEN"
    [] str = "All Time" -> "ALL TIME"
    [] str = "Last 7 Days" -> "LAST 7 DAYS"
    [] str = "Last Month" -> "LAST MONTH"
    [] str = "Last 3 Months" -> "LAST 3 MONTHS"

\* String.prototype.toLowerCase on the values filters.flag can hold
toLowerCase(str) ==
  CASE str = "FLAG LEVEL" -> "flag level"
    [] str = "ALL" -> "all"
    [] str = "RED" -> "red"
    [] str = "YELLOW" -> "yellow"
    [] str = "GREEN" -> "green"

FilterValues ==
  [type : {InitialFilters.type} \cup {toUpperCase(o) : o \in filterOptions.type},
   flag : {InitialFilters.flag} \cup {toUpperCase(o) : o \in filterOptions.flag},
   time : {InitialFilters.time} \cup {toUpperCase(o) : o \in filterOptions.time}]

\* the argument loadReports passes to listReports (page and limit, which are fixed, left out)
loadReportsParams(f, member) ==
  [report_type |-> IF f.type # "ALL TYPES" THEN f.type ELSE Undefined,
   flag_level |-> IF f.flag # "FLAG LEVEL" THEN toLowerCase(f.flag) ELSE Undefined,
   time_range |-> IF f.time = "All Time" THEN "all"
                  ELSE IF f.time = "Last 7 Days" THEN "7d"
                  ELSE IF f.time = "Last Month" THEN "30d"
                  ELSE IF f.time = "Last 3 Months" THEN "90d"
                  ELSE "all",
   user_id |-> IF member # NoMember THEN member ELSE Undefined]

\* api.ts listReports: the query string, as the set of its <<name, value>> pairs
Truthy(v) == v # Undefined /\ v # ""
QueryPair(name, v) == IF Truthy(v) THEN {<<name, v>>} ELSE {}
listReports(params) ==
  QueryPair("report_type", params.report_type)
  \cup QueryPair("flag_level", params.flag_level)
  \cup QueryPair("time_range", params.time_range)
  \cup QueryPair("target_user_id", params.user_id)
NoRequest == {}
QueryValue(q, name) == IF \E kv \in q : kv[1] = name THEN (CHOOSE kv \in q : kv[1] = name)[2] ELSE Undefined

VARIABLES
  currentScreen,     \* AppContext.currentScreen
  currentReportId,   \* AppContext.currentReportId
  reports,           \* reports table: id -> status (or Absent)
  capturedImages,    \* ScanScreen: number of selected files
  uploading,         \* ScanScreen: uploading flag of the mounted instance
  staleUploads,      \* uploadReport calls pending in unmounted ScanScreen instances
  lastUploadId,      \* report_id returned by the latest resolved uploadReport
  nLoops,            \* number of times ScanningScreen's effect started polling
  loopReport,        \* per effect run: the currentReportId its closure captured
  isMounted,         \* per effect run: the closure's isMounted flag
  inFlight,          \* per effect run: pending getReportStatus promises
  pollTimer,         \* per effect run: pending setTimeout(pollStatus, 2000)
  navTimer,          \* per effect run: pending 500 ms navigation timer
  navCaller,         \* effect run whose callback made the latest setCurrentScreen call (0: none)
  received,          \* per mounted effect run: the last status it received
  progress,          \* ScanningScreen: progress state
  status,            \* ScanningScreen: status state
  toast,             \* the toast raised by the latest step of the client ("none": it raised none)
  session,           \* supabase.auth: the current session
  fetches,           \* HTTP requests sent by the API client and not yet answered
  lastResponse,      \* the HTTP response (for an auth helper: the answer of supabase.auth) that settled the latest call (or NoResponse)
  outcome,           \* how the latest call of the API client settled
  reportOwner,       \* reports.user_id per report id (NoUser: no row)
  report_parameters, \* report ids that have report_parameters rows
  report_summaries,  \* rows of report_summaries
  family_connections, \* rows of family_connections
  viewingMember,     \* AppContext.viewingMember (NoMember: null)
  hsReports,         \* HistoryScreen: reports state, the ids of the listed reports
  hsLoading,         \* HistoryScreen: loading state
  filters,           \* HistoryScreen: filters state
  openFilter,        \* HistoryScreen: openFilter state
  showMenu,          \* HistoryScreen: showMenu state
  selectedReports,   \* HistoryScreen: selectedReports state
  isCompareMode,     \* HistoryScreen: isCompareMode state
  isDeleteMode,      \* HistoryScreen: isDeleteMode state
  loads,             \* HistoryScreen: listReports calls of the mounted instance not yet settled
  deletes,           \* HistoryScreen: the bag of handleDelete calls awaiting Promise.all, each the selection it captured
  listRequest,       \* the query of the listReports request sent by the latest step (NoRequest: none sent)
  deleteRequests,    \* the ids for which the latest step called deleteReport
  confirmAnswer,     \* what window.confirm returned in the latest step ("none": not asked)
  members,           \* FamilyScreen: members state
  famLoading,        \* FamilyScreen: loading state
  famFetches,        \* FamilyScreen: getFamilyMembers calls of the mounted instance not yet settled
  synMounted,        \* ReportSynthesis is mounted
  synthesis,         \* ReportSynthesis: the status of the synthesis state (NoSynthesis: null)
  synLoading,        \* ReportSynthesis: loading state
  isGenerating,      \* ReportSynthesis: isGenerating state
  interval,          \* ReportSynthesis: the 3 s interval of the polling effect is set
  synFetches,        \* getReportSynthesis calls of the mounted instance not yet settled, with their answers
  generating,        \* handleRetry awaits generateReportSynthesis
  synBackend,        \* the status GET /reports/{id}/synthesis answers with at this moment
  settled,           \* a fetch stored a status other than pending and the user has not acted since
  synOut             \* what the latest step of ReportSynthesis was

uiVars == <<currentScreen, currentReportId, capturedImages, uploading,
            staleUploads, lastUploadId>>
loopVars == <<nLoops, loopReport, isMounted, inFlight, pollTimer, navTimer,
              progress, status>>
histVars == <<navCaller, received>>
apiVars == <<session, fetches, lastResponse, outcome>>
dbVars == <<reportOwner, report_parameters, report_summaries, family_connections>>
\* the variables of the other components, which the upload / polling flow leaves alone
hsVars == <<viewingMember, hsReports, hsLoading, filters, openFilter, showMenu,
            selectedReports, isCompareMode, isDeleteMode, loads, deletes,
            listRequest, deleteRequests, confirmAnswer>>
\* the state of the screens that are modelled as systems of their own
famVars == <<members, famLoading, famFetches>>
synVars == <<synMounted, synthesis, synLoading, isGenerating, interval, synFetches,
             generating, synBackend, settled, synOut>>
screenVars == <<hsVars, famVars, synVars>>
restVars == <<apiVars, dbVars, screenVars>>
vars == <<uiVars, loopVars, histVars, reports, toast, restVars>>

Min(a, b) == IF a < b THEN a ELSE b

\* ------------------------------------------------------------------------
\* ScanningScreen: the useEffect of the component, as functions on the
\* record L of the loop variables
\* ------------------------------------------------------------------------
LoopRec ==
  [nLoops |-> nLoops, loopReport |-> loopReport, isMounted |-> isMounted,
   inFlight |-> inFlight, pollTimer |-> pollTimer, navTimer |-> navTimer,
   progress |-> progress, status |-> status]

\* effect runs whose cleanup has not run yet
Live(L) == {l \in 1..L.nLoops : L.isMounted[l]}

\* the cleanup returned by the effect: isMounted = false; clearTimeout(timeoutId)
\* (timeoutId names the most recently scheduled poll timer only)
Cleanup(L) ==
  [L EXCEPT
     !.isMounted = [l \in LoopIds |-> FALSE],
     !.pollTimer = [l \in LoopIds |->
                      IF L.isMounted[l] /\ L.pollTimer[l] > 0
                        THEN L.pollTimer[l] - 1 ELSE L.pollTimer[l]]]

\* const pollStatus = async () => { if (!isMounted) return; await getReportStatus(...)
pollStatus(L, l) ==
  IF ~L.isMounted[l] THEN L
  ELSE [L EXCEPT !.inFlight[l] = @ + 1]

\* the effect body with a report id: a new closure, then pollStatus()
StartLoop(L, id) ==
  LET n == L.nLoops + 1
      L1 == [L EXCEPT !.nLoops = n, !.loopReport[n] = id, !.isMounted[n] = TRUE]
  IN pollStatus(L1, n)

\* useState(0), useState('processing'): the state of a ScanningScreen that
\* is not mounted, or newly mounted
FreshComponent(L) == [L EXCEPT !.progress = 0, !.status = "processing"]

\* the effect without its test of currentReportId
RenderNoCheck(L, from, to, id) ==
  LET was == from = "scanning"
      will == to = "scanning"
      depsChanged == \A l \in Live(L) : L.loopReport[l] # id
      L1 == IF was /\ (~will \/ depsChanged) THEN Cleanup(L) ELSE L
      L2 == IF was # will THEN FreshComponent(L1) ELSE L1
  IN IF will /\ (~was \/ depsChanged)
       THEN [screen |-> "scanning", L |-> StartLoop(L2, id)]
       ELSE [screen |-> to, L |-> L2]

\* React commits a render in which the screen is `to` and the report id `id`:
\* the result is the screen finally shown and the loop variables
Render(L, from, to, id) ==
  LET was == from = "scanning"
      will == to = "scanning"
      depsChanged == \A l \in Live(L) : L.loopReport[l] # id
      L1 == IF was /\ (~will \/ depsChanged) THEN Cleanup(L) ELSE L
      \* the state of the component is discarded with it and created anew
      L2 == IF was # will THEN FreshComponent(L1) ELSE L1
  IN IF will /\ (~was \/ depsChanged)
       THEN IF id = NoReport
              \* setCurrentScreen('scan'); return: the next render unmounts the screen
              THEN [screen |-> "scan", L |-> FreshComponent(L2)]
              ELSE [screen |-> "scanning", L |-> StartLoop(L2, id)]
       ELSE [screen |-> to, L |-> L2]

SetLoopVars(L) ==
  /\ nLoops' = L.nLoops
  /\ loopReport' = L.loopReport
  /\ isMounted' = L.isMounted
  /\ inFlight' = L.inFlight
  /\ pollTimer' = L.pollTimer
  /\ navTimer' = L.navTimer
  /\ progress' = L.progress
  /\ status' = L.status

\* setCurrentScreen(to) with the report id `id`, called by effect run `by`
\* (0: by another handler), after the calling handler left the loop variables
\* as L, ScanScreen's uploading flag as `up` and `stale` uploads pending in
\* unmounted ScanScreen instances
Navigate(L, up, stale, to, id, by) ==
  LET R == Render(L, currentScreen, to, id)
      leavesScan == currentScreen = "scan" /\ R.screen # "scan"
      entersScan == currentScreen # "scan" /\ R.screen = "scan"
      \* ScanningScreen was rendered and sent the app back: a new ScanScreen
      bounced == to = "scanning" /\ R.screen = "scan"
  IN /\ currentScreen' = R.screen
     /\ currentReportId' = id
     /\ SetLoopVars(R.L)
     /\ navCaller' = by
     /\ received' = [l \in LoopIds |-> IF R.L.isMounted[l] THEN received[l] ELSE "none"]
     /\ IF leavesScan \/ entersScan \/ bounced
          THEN /\ capturedImages' = 0
               /\ uploading' = FALSE
               /\ staleUploads' = stale + (IF up THEN 1 ELSE 0)
          ELSE /\ capturedImages' = capturedImages
               /\ uploading' = up
               /\ staleUploads' = stale

\* ------------------------------------------------------------------------
\* API client (lib/api.ts)
\* ------------------------------------------------------------------------
MaxFetches == 2      \* HTTP requests awaiting their response

Tokens == {"", "t1", "t2"}
NoSession == [present |-> FALSE, access_token |-> ""]
Sessions == {NoSession} \cup {[present |-> TRUE, access_token |-> t] : t \in Tokens}

\* !session?.access_token
HasAccessToken(sess) == sess.present /\ sess.access_token # ""

NotAuthenticated == <<"Not authenticated. Please log in.">>
NoHeaders == [Authorization |-> <<>>, ContentType |-> ""]

\* bodies of HTTP responses: not JSON, or a JSON object whose message field
\* is absent (<<>>) or present (<<text>>)
NotJson == [json |-> FALSE, message |-> <<>>]
JsonBody(m) == [json |-> TRUE, message |-> m]
Bodies == {NotJson, JsonBody(<<>>), JsonBody(<<"">>), JsonBody(<<"Report not found">>)}

HttpStatuses == {200, 204, 401, 500}
StatusText(code) ==
  CASE code = 200 -> "OK"
    [] code = 204 -> "No Content"
    [] code = 401 -> "Unauthorized"
    [] code = 500 -> "Internal Server Error"
Responses ==
  {[status |-> c, statusText |-> StatusText(c), body |-> b] : c \in HttpStatuses, b \in Bodies}
NoResponse == [status |-> 0, statusText |-> "", body |-> NotJson]

\* response.ok
Ok(resp) == resp.status \in 200..299

\* JavaScript's a || b on an optional string
OrElse(m, dflt) == IF m # <<>> /\ m # <<"">> THEN m ELSE dflt

Rejected(fn, msg, parsed) ==
  [fn |-> fn, kind |-> "rejected", message |-> msg, value |-> "none", parsed |-> parsed]
Resolved(fn, val, parsed) ==
  [fn |-> fn, kind |-> "resolved", message |-> <<>>, value |-> val, parsed |-> parsed]
NoOutcome == [fn |-> "none", kind |-> "none", message |-> <<>>, value |-> "none", parsed |-> FALSE]

\* return response.json()
ResponseJson(fn, resp) ==
  IF resp.body.json THEN Resolved(fn, "json-body", TRUE)
  ELSE Rejected(fn, <<"SyntaxError">>, TRUE)

\* getAuthHeaders without the session check
getAuthHeadersNoCheck(sess) ==
  [throws |-> FALSE,
   headers |-> [Authorization |-> <<"Bearer", sess.access_token>>,
                ContentType |-> "application/json"]]

getAuthHeaders(sess) ==
  IF ~HasAccessToken(sess)
    THEN [throws |-> TRUE, headers |-> NoHeaders]
    ELSE [throws |-> FALSE,
          headers |-> [Authorization |-> <<"Bearer", sess.access_token>>,
                       ContentType |-> "application/json"]]

\* the first lines of uploadReport: the same check, and only the
\* Authorization header (the body is FormData)
uploadAuthHeaders(sess) ==
  IF ~HasAccessToken(sess)
    THEN [throws |-> TRUE, headers |-> NoHeaders]
    ELSE [throws |-> FALSE,
          headers |-> [Authorization |-> <<"Bearer", sess.access_token>>,
                       ContentType |-> ""]]

\* apiRequest without the 204 branch
apiRequestSettledNo204(resp) ==
  IF ~Ok(resp)
    THEN LET error == IF resp.body.json THEN resp.body ELSE JsonBody(<<"Request failed">>)
         IN Rejected("apiRequest",
                     OrElse(error.message, <<"API request failed: ", resp.statusText>>),
                     TRUE)
    ELSE ResponseJson("apiRequest", resp)

\* apiRequest after `await fetch(...)` returned resp
apiRequestSettled(resp) ==
  IF ~Ok(resp)
    THEN LET error == IF resp.body.json THEN resp.body ELSE JsonBody(<<"Request failed">>)
         IN Rejected("apiRequest",
                     OrElse(error.message, <<"API request failed: ", resp.statusText>>),
                     TRUE)
    ELSE IF resp.status = 204
           THEN Resolved("apiRequest", "empty-object", FALSE)
           ELSE ResponseJson("apiRequest", resp)

\* uploadReport after `await fetch(...)` returned resp
uploadReportSettled(resp) ==
  IF ~Ok(resp)
    THEN LET error == IF resp.body.json THEN resp.body ELSE JsonBody(<<"Upload failed">>)
         IN Rejected("uploadReport", OrElse(error.message, <<"Upload failed">>), TRUE)
    ELSE ResponseJson("uploadReport", resp)

FreeSlots == (1..MaxFetches) \ {f.slot : f \in fetches}

\* a call of fn: the session check, then fetch() with the headers
Call(fn, auth) ==
  IF auth.throws
    THEN /\ outcome' = Rejected(fn, NotAuthenticated, FALSE)
         /\ lastResponse' = NoResponse
         /\ UNCHANGED <<session, fetches>>
    ELSE /\ FreeSlots # {}
         /\ LET slot == CHOOSE k \in FreeSlots : \A j \in FreeSlots : k <= j
            IN fetches' = fetches \cup {[slot |-> slot, fn |-> fn, headers |-> auth.headers]}
         /\ UNCHANGED <<session, lastResponse, outcome>>

\* ------------------------------------------------------------------------
\* Database schema and row-level security (supabase migrations)
\* ------------------------------------------------------------------------
MaxConnections == 2  \* rows of family_connections

Users == {"u1", "u2", "u3"}
NoUser == "nobody"
ConnectionStatuses == {"pending_sent", "pending_received", "connected"}
ConnectionStatusDefault == "pending_sent"

MaxSummaries == 2    \* rows of report_summaries
SummaryIds == 1..MaxSummaries
SummaryStatuses == {"pending", "completed", "failed"}
SummaryStatusDefault == "completed"
\* values a statement can try to store in report_summaries.status
SummaryStatusInputs == SummaryStatuses \cup {"processing"}

ExistingReports == {r \in ReportIds : reportOwner[r] # NoUser}

\* "Users can view parameters of their reports"
ViewOwnParameters(uid, report_id) ==
  \E r \in ExistingReports : r = report_id /\ reportOwner[r] = uid

\* "Users can view parameters of connected family reports"
ViewFamilyParameters(uid, report_id) ==
  \E r \in ExistingReports : \E fc \in family_connections :
    /\ (fc.user_id = uid \/ fc.connected_user_id = uid)
    /\ r = report_id
    /\ fc.status = "connected"

\* "Users can view summaries of their reports"
ViewOwnSummaries(uid, report_id) ==
  \E r \in ExistingReports : r = report_id /\ reportOwner[r] = uid

\* "Users can view summaries of connected family reports"
ViewFamilySummaries(uid, report_id) ==
  \E r \in ExistingReports : \E fc \in family_connections :
    /\ (fc.user_id = uid \/ fc.connected_user_id = uid)
    /\ r = report_id
    /\ fc.status = "connected"

\* SELECT under RLS: permissive policies are OR-ed
CanSelectParameters(uid, report_id) ==
  ViewOwnParameters(uid, report_id) \/ ViewFamilyParameters(uid, report_id)
CanSelectSummary(uid, report_id) ==
  ViewOwnSummaries(uid, report_id) \/ ViewFamilySummaries(uid, report_id)

\* "Users can view/update/delete their own connections"
OwnConnection(uid, fc) == uid = fc.user_id \/ uid = fc.connected_user_id

\* ------------------------------------------------------------------------
\* Initial state: the app on the home screen, nothing uploaded
\* ------------------------------------------------------------------------
Init ==
  /\ currentScreen = "home"
  /\ currentReportId = NoReport
  /\ reports = [r \in ReportIds |-> Absent]
  /\ capturedImages = 0
  /\ uploading = FALSE
  /\ staleUploads = 0
  /\ lastUploadId = NoReport
  /\ nLoops = 0
  /\ loopReport = [l \in LoopIds |-> NoReport]
  /\ isMounted = [l \in LoopIds |-> FALSE]
  /\ inFlight = [l \in LoopIds |-> 0]
  /\ pollTimer = [l \in LoopIds |-> 0]
  /\ navTimer = [l \in LoopIds |-> "none"]
  /\ navCaller = 0
  /\ received = [l \in LoopIds |-> "none"]
  /\ progress = 0
  /\ status = "processing"
  /\ toast = NoToast
  /\ session = NoSession
  /\ fetches = {}
  /\ lastResponse = NoResponse
  /\ outcome = NoOutcome
  /\ reportOwner = [r \in ReportIds |-> NoUser]
  /\ report_parameters = {}
  /\ report_summaries = {}
  /\ family_connections = {}
  /\ viewingMember = NoMember
  /\ hsReports = {}
  /\ hsLoading = TRUE
  /\ filters = InitialFilters
  /\ openFilter = NoFilter
  /\ showMenu = FALSE
  /\ selectedReports = <<>>
  /\ isCompareMode = FALSE
  /\ isDeleteMode = FALSE
  /\ loads = 0
  /\ deletes = EmptyBag
  /\ listRequest = NoRequest
  /\ deleteRequests = {}
  /\ confirmAnswer = "none"
  /\ members = {}
  /\ famLoading = TRUE
  /\ famFetches = 0
  /\ synMounted = FALSE
  /\ synthesis = NoSynthesis
  /\ synLoading = TRUE
  /\ isGenerating = FALSE
  /\ interval = FALSE
  /\ synFetches = <<>>
  /\ generating = FALSE
  /\ synBackend = "not_generated"
  /\ settled = FALSE
  /\ synOut = "none"

\* ------------------------------------------------------------------------
\* Navigation by the user
\* ------------------------------------------------------------------------
\* TabBar.handleTabChange on the screens that show the tab bar
handleTabChange(tab) ==
  /\ currentScreen \in {"home", "history"}
  /\ tab # currentScreen
  /\ Navigate(LoopRec, uploading, staleUploads, tab, currentReportId, 0)
  /\ UNCHANGED <<reports, lastUploadId>>
  /\ toast' = NoToast
  /\ UNCHANGED restVars

\* ScanScreen.handleBack
handleBack ==
  /\ currentScreen = "scan"
  /\ uploading => staleUploads < MaxStale
  /\ Navigate(LoopRec, uploading, staleUploads, "home", currentReportId, 0)
  /\ UNCHANGED <<reports, lastUploadId>>
  /\ toast' = NoToast
  /\ UNCHANGED restVars

\* ScanErrorScreen "Try Again"
ScanErrorRetry ==
  /\ currentScreen = "scan-error"
  /\ Navigate(LoopRec, uploading, staleUploads, "scan", currentReportId, 0)
  /\ UNCHANGED <<reports, lastUploadId>>
  /\ toast' = NoToast
  /\ UNCHANGED restVars

\* HistoryScreen.handleReportClick outside compare/delete mode
handleReportClick(reportId) ==
  /\ currentScreen = "history"
  /\ reports[reportId] # Absent
  /\ Navigate(LoopRec, uploading, staleUploads, "report-result", reportId, 0)
  /\ UNCHANGED <<reports, lastUploadId>>
  /\ toast' = NoToast
  /\ UNCHANGED restVars

\* ReportResultScreen.handleBack
ReportResultBack ==
  /\ currentScreen = "report-result"
  /\ Navigate(LoopRec, uploading, staleUploads, "history", currentReportId, 0)
  /\ UNCHANGED <<reports, lastUploadId>>
  /\ toast' = NoToast
  /\ UNCHANGED restVars

\* ------------------------------------------------------------------------
\* ScanScreen
\* ------------------------------------------------------------------------
handleFileSelect ==
  /\ currentScreen = "scan"
  /\ capturedImages < MaxImages
  /\ capturedImages' = capturedImages + 1
  /\ UNCHANGED <<currentScreen, currentReportId, uploading, staleUploads,
                 lastUploadId, loopVars, histVars, reports>>
  /\ toast' = NoToast
  /\ UNCHANGED restVars

removeImage ==
  /\ currentScreen = "scan"
  /\ capturedImages > 0
  /\ capturedImages' = capturedImages - 1
  /\ UNCHANGED <<currentScreen, currentReportId, uploading, staleUploads,
                 lastUploadId, loopVars, histVars, reports>>
  /\ toast' = NoToast
  /\ UNCHANGED restVars

Created == {r \in ReportIds : reports[r] # Absent}

\* handleScan that uploads without testing capturedImages.length
handleScanNoCheck ==
  /\ currentScreen = "scan"
  /\ ~uploading
  /\ uploading' = TRUE
  /\ toast' = NoToast
  /\ UNCHANGED <<currentScreen, currentReportId, capturedImages, staleUploads,
                 lastUploadId, loopVars, histVars, reports>>
  /\ UNCHANGED restVars

\* handleScan up to `await uploadReport(file)`: with no image it raises a
\* toast and returns. The Scan button is disabled while uploading (and is
\* rendered with images only: the empty branch is the handler's own guard).
handleScan ==
  /\ currentScreen = "scan"
  /\ ~uploading
  /\ IF capturedImages = 0
       THEN /\ toast' = SelectImageToast
            /\ UNCHANGED uploading
       ELSE /\ toast' = NoToast
            /\ uploading' = TRUE
  /\ UNCHANGED <<currentScreen, currentReportId, capturedImages, staleUploads,
                 lastUploadId, loopVars, histVars, reports>>
  /\ UNCHANGED restVars

\* the backend's upload route: a new reports row with the DEFAULT status
CreateReport(id) == [reports EXCEPT ![id] = ReportStatusDefault]

NextReportId == CHOOSE r \in ReportIds : reports[r] = Absent /\ \A q \in ReportIds : q < r => reports[q] # Absent

\* handleScan that navigates without storing the report id
UploadResolvedKeepsId(live) ==
  /\ IF live THEN uploading ELSE staleUploads > 0
  /\ Created # ReportIds
  /\ LET id == NextReportId
     IN /\ reports' = CreateReport(id)
        /\ lastUploadId' = id
        /\ Navigate(LoopRec,
                    IF live THEN FALSE ELSE uploading,
                    IF live THEN staleUploads ELSE staleUploads - 1,
                    "scanning", currentReportId, 0)
  /\ toast' = UploadedToast
  /\ UNCHANGED restVars

\* handleScan after uploadReport resolved, of the mounted ScanScreen (live)
\* or of an instance unmounted meanwhile:
\* setCurrentReportId(result.report_id); setCurrentScreen('scanning'); finally setUploading(false)
UploadResolved(live) ==
  /\ IF live THEN uploading ELSE staleUploads > 0
  /\ Created # ReportIds
  /\ LET id == NextReportId
     IN /\ reports' = CreateReport(id)
        /\ lastUploadId' = id
        /\ Navigate(LoopRec,
                    IF live THEN FALSE ELSE uploading,
                    IF live THEN staleUploads ELSE staleUploads - 1,
                    "scanning", id, 0)
  /\ toast' = UploadedToast
  /\ UNCHANGED restVars

\* handleScan after uploadReport resolved with a JSON body that has no
\* report_id (uploadReport returns response.json() as it is):
\* setCurrentReportId(undefined); setCurrentScreen('scanning')
UploadResolvedWithoutId(live) ==
  /\ IF live THEN uploading ELSE staleUploads > 0
  /\ lastUploadId' = NoReport
  /\ Navigate(LoopRec,
              IF live THEN FALSE ELSE uploading,
              IF live THEN staleUploads ELSE staleUploads - 1,
              "scanning", NoReport, 0)
  /\ toast' = UploadedToast
  /\ UNCHANGED reports
  /\ UNCHANGED restVars

\* handleScan after uploadReport rejected: setCurrentScreen('scan-error'); finally setUploading(false)
UploadRejected(live) ==
  /\ IF live THEN uploading ELSE staleUploads > 0
  /\ Navigate(LoopRec,
              IF live THEN FALSE ELSE uploading,
              IF live THEN staleUploads ELSE staleUploads - 1,
              "scan-error", currentReportId, 0)
  /\ UNCHANGED <<reports, lastUploadId>>
  /\ toast' = UploadErrorToast
  /\ UNCHANGED restVars

\* ------------------------------------------------------------------------
\* Backend: the background task of a report (OCR -> parse -> LLM -> persist)
\* ------------------------------------------------------------------------
BackendComplete(r) ==
  /\ reports[r] = "processing"
  /\ reports' = [reports EXCEPT ![r] = "completed"]
  /\ UNCHANGED <<uiVars, loopVars, histVars>>
  /\ toast' = NoToast
  /\ UNCHANGED restVars

BackendFail(r) ==
  /\ reports[r] = "processing"
  /\ reports' = [reports EXCEPT ![r] = "failed"]
  /\ UNCHANGED <<uiVars, loopVars, histVars>>
  /\ toast' = NoToast
  /\ UNCHANGED restVars

\* ------------------------------------------------------------------------
\* ScanningScreen.pollStatus, per effect run l
\* ------------------------------------------------------------------------
\* variants of the body of pollStatus: a 'processing' answer polls again at
\* once and also sets the timer; a 'completed' answer sets the poll timer
\* too; a 'failed' answer navigates like 'completed'
OnStatusPollsTwice(L, l, s) ==
  IF ~L.isMounted[l] THEN L
  ELSE LET L1 == [L EXCEPT !.status = s]
       IN CASE s = "processing" ->
                 [L1 EXCEPT !.progress = Min(@ + ProgressStep, ProgressCap),
                            !.pollTimer[l] = @ + 1,
                            !.inFlight[l] = @ + 1]
            [] s = "completed" ->
                 [L1 EXCEPT !.progress = ProgressDone,
                            !.navTimer[l] = "report-result"]
            [] s = "failed" ->
                 [L1 EXCEPT !.navTimer[l] = "scan-error"]
            [] OTHER -> L1

OnStatusCompletedReschedules(L, l, s) ==
  IF ~L.isMounted[l] THEN L
  ELSE LET L1 == [L EXCEPT !.status = s]
       IN CASE s = "processing" ->
                 [L1 EXCEPT !.progress = Min(@ + ProgressStep, ProgressCap),
                            !.pollTimer[l] = @ + 1]
            [] s = "completed" ->
                 [L1 EXCEPT !.progress = ProgressDone,
                            !.navTimer[l] = "report-result",
                            !.pollTimer[l] = @ + 1]
            [] s = "failed" ->
                 [L1 EXCEPT !.navTimer[l] = "scan-error"]
            [] OTHER -> L1

OnStatusFailedToResult(L, l, s) ==
  IF ~L.isMounted[l] THEN L
  ELSE LET L1 == [L EXCEPT !.status = s]
       IN CASE s = "processing" ->
                 [L1 EXCEPT !.progress = Min(@ + ProgressStep, ProgressCap),
                            !.pollTimer[l] = @ + 1]
            [] s = "completed" ->
                 [L1 EXCEPT !.progress = ProgressDone,
                            !.navTimer[l] = "report-result"]
            [] s = "failed" ->
                 [L1 EXCEPT !.navTimer[l] = "report-result"]
            [] OTHER -> L1

\* a 'failed' answer only raises the toast
OnStatusFailedStops(L, l, s) ==
  IF ~L.isMounted[l] THEN L
  ELSE LET L1 == [L EXCEPT !.status = s]
       IN CASE s = "processing" ->
                 [L1 EXCEPT !.progress = Min(@ + ProgressStep, ProgressCap),
                            !.pollTimer[l] = @ + 1]
            [] s = "completed" ->
                 [L1 EXCEPT !.progress = ProgressDone,
                            !.navTimer[l] = "report-result"]
            [] OTHER -> L1

\* the body of pollStatus after `await getReportStatus` resolved with status s
OnStatus(L, l, s) ==
  IF ~L.isMounted[l] THEN L
  ELSE LET L1 == [L EXCEPT !.status = s]
       IN CASE s = "processing" ->
                 [L1 EXCEPT !.progress = Min(@ + ProgressStep, ProgressCap),
                            !.pollTimer[l] = @ + 1]
            [] s = "completed" ->
                 [L1 EXCEPT !.progress = ProgressDone,
                            !.navTimer[l] = "report-result"]
            [] s = "failed" ->
                 [L1 EXCEPT !.navTimer[l] = "scan-error"]
            [] OTHER -> L1

\* a catch block that does not poll again
OnStatusErrorGivesUp(L, l) == L

\* a catch block that schedules two polls
OnStatusErrorPollsTwice(L, l) ==
  IF L.isMounted[l] THEN [L EXCEPT !.pollTimer[l] = @ + 2] ELSE L

\* the catch block of pollStatus
OnStatusError(L, l) ==
  IF L.isMounted[l] THEN [L EXCEPT !.pollTimer[l] = @ + 1] ELSE L

\* GET /reports/{id}/status answered with the row's status
StatusResolved(l) ==
  /\ l \in 1..nLoops
  /\ inFlight[l] > 0
  /\ reports[loopReport[l]] \in ReportStatuses
  /\ SetLoopVars(OnStatus([LoopRec EXCEPT !.inFlight[l] = @ - 1], l,
                          reports[loopReport[l]]))
  /\ received' = IF isMounted[l]
                   THEN [received EXCEPT ![l] = reports[loopReport[l]]]
                   ELSE received
  /\ UNCHANGED <<uiVars, navCaller, reports>>
  /\ toast' = IF isMounted[l] /\ reports[loopReport[l]] = "failed"
               THEN ProcessingFailedToast ELSE NoToast
  /\ UNCHANGED restVars

\* getReportStatus rejected (not authenticated, network error, non-2xx)
StatusRejected(l) ==
  /\ l \in 1..nLoops
  /\ inFlight[l] > 0
  /\ SetLoopVars(OnStatusError([LoopRec EXCEPT !.inFlight[l] = @ - 1], l))
  /\ UNCHANGED <<uiVars, histVars, reports>>
  /\ toast' = NoToast
  /\ UNCHANGED restVars

\* the 2 s timer set by setTimeout(pollStatus, 2000) fires
PollTimerFired(l) ==
  /\ l \in 1..nLoops
  /\ pollTimer[l] > 0
  /\ SetLoopVars(pollStatus([LoopRec EXCEPT !.pollTimer[l] = @ - 1], l))
  /\ UNCHANGED <<uiVars, histVars, reports>>
  /\ toast' = NoToast
  /\ UNCHANGED restVars

\* the 500 ms timer without the isMounted test
NavTimerFiredUnguarded(l) ==
  /\ l \in 1..nLoops
  /\ navTimer[l] # "none"
  /\ Navigate([LoopRec EXCEPT !.navTimer[l] = "none"], uploading, staleUploads,
              navTimer[l], currentReportId, l)
  /\ UNCHANGED <<reports, lastUploadId>>
  /\ toast' = NoToast
  /\ UNCHANGED restVars

\* the 500 ms timer fires: if (isMounted) setCurrentScreen(target)
NavTimerFired(l) ==
  /\ l \in 1..nLoops
  /\ navTimer[l] # "none"
  /\ LET L == [LoopRec EXCEPT !.navTimer[l] = "none"]
     IN IF isMounted[l]
          THEN Navigate(L, uploading, staleUploads, navTimer[l], currentReportId, l)
          ELSE /\ SetLoopVars(L)
               /\ UNCHANGED <<uiVars, histVars>>
  /\ UNCHANGED <<reports, lastUploadId>>
  /\ toast' = NoToast
  /\ UNCHANGED restVars

Next ==
  \/ \E tab \in {"home", "history", "scan"} : handleTabChange(tab)
  \/ handleBack
  \/ ScanErrorRetry
  \/ \E r \in ReportIds : handleReportClick(r)
  \/ ReportResultBack
  \/ handleFileSelect
  \/ removeImage
  \/ handleScan
  \/ \E live \in BOOLEAN : UploadResolved(live)
  \/ \E live \in BOOLEAN : UploadRejected(live)
  \/ \E r \in ReportIds : BackendComplete(r)
  \/ \E r \in ReportIds : BackendFail(r)
  \/ \E l \in LoopIds : StatusResolved(l)
  \/ \E l \in LoopIds : StatusRejected(l)
  \/ \E l \in LoopIds : PollTimerFired(l)
  \/ \E l \in LoopIds : NavTimerFired(l)

Spec == Init /\ [][Next]_vars

\* the same system when the upload route may also answer without a report_id
NoIdNext ==
  \/ Next
  \/ \E live \in BOOLEAN : UploadResolvedWithoutId(live)

NoIdSpec == Init /\ [][NoIdNext]_vars

TypeOK ==
  /\ currentScreen \in Screens
  /\ currentReportId \in {NoReport} \cup ReportIds \cup ListedIds
  /\ nLoops \in 0..MaxReports
  /\ progress \in 0..100
  /\ toast \in Toasts
  /\ viewingMember \in {NoMember} \cup Members
  /\ hsReports \subseteq ListedIds
  /\ filters \in FilterValues
  /\ openFilter \in {NoFilter} \cup FilterKeys
  /\ loads \in 0..MaxLoads
  /\ BagCardinality(deletes) <= MaxDeletes

\* ------------------------------------------------------------------------
\* The API client as a system of its own: sessions change, calls are made,
\* the backend answers
\* ------------------------------------------------------------------------
appVars == <<uiVars, loopVars, histVars, reports, toast, screenVars>>

\* supabase.auth.signInWithPassword succeeded
signIn(token) ==
  /\ session' = [present |-> TRUE, access_token |-> token]
  /\ UNCHANGED <<fetches, lastResponse, outcome, appVars, dbVars>>

\* supabase.auth.signOut
signOut ==
  /\ session' = NoSession
  /\ UNCHANGED <<fetches, lastResponse, outcome, appVars, dbVars>>

apiRequest ==
  /\ Call("apiRequest", getAuthHeaders(session))
  /\ UNCHANGED <<appVars, dbVars>>

uploadReport ==
  /\ Call("uploadReport", uploadAuthHeaders(session))
  /\ UNCHANGED <<appVars, dbVars>>

\* the backend (or the network) answers a request
Respond(f, resp) ==
  /\ f \in fetches
  /\ fetches' = fetches \ {f}
  /\ lastResponse' = resp
  /\ outcome' = IF f.fn = "apiRequest" THEN apiRequestSettled(resp)
                ELSE uploadReportSettled(resp)
  /\ UNCHANGED <<session, appVars, dbVars>>

ApiNext ==
  \/ \E t \in Tokens : signIn(t)
  \/ signOut
  \/ apiRequest
  \/ uploadReport
  \/ \E f \in fetches : \E resp \in Responses : Respond(f, resp)

ApiSpec == Init /\ [][ApiNext]_vars

\* ------------------------------------------------------------------------
\* The auth helpers of lib/api.ts: each awaits one method of supabase.auth
\* inside try / catch and returns a result object
\* ------------------------------------------------------------------------
Null == "null"
AuthResponseHelpers == {"signUp", "verifyOTP", "signIn"}
ErrorHelpers == {"signUpWithOTP", "updatePassword", "resendOTP", "signOut"}
ValueHelpers == {"getSession", "getCurrentUser"}
AuthHelpers == AuthResponseHelpers \cup ErrorHelpers \cup ValueHelpers
OtpTypes == {"signup", "email", "magiclink"}

\* the method of supabase.auth that a helper awaits
clientMethod(fn, type) ==
  CASE fn = "signUpWithOTP" -> "signInWithOtp"
    [] fn = "signUp" -> "signUp"
    [] fn = "updatePassword" -> "updateUser"
    [] fn = "verifyOTP" -> "verifyOtp"
    [] fn = "resendOTP" -> IF type = "magiclink" THEN "signInWithOtp" ELSE "resend"
    [] fn = "signIn" -> "signInWithPassword"
    [] fn = "signOut" -> "signOut"
    [] fn = "getSession" -> "getSession"
    [] fn = "getCurrentUser" -> "getUser"

NewSessions == {[present |-> TRUE, access_token |-> t] : t \in {"t1", "t2"}}
ClientAnswer(m, kind, user, sess, error) ==
  [method |-> m, kind |-> kind, user |-> user, session |-> sess, error |-> error]

\* the type option a helper passes on to supabase.auth
clientType(fn, type) ==
  IF fn = "verifyOTP" \/ (fn = "resendOTP" /\ type # "magiclink") THEN type ELSE Null

\* what a method of supabase.auth answers: it throws what is not an
\* AuthError, it resolves with an AuthError and null data, or it resolves
\* with its data and no error
ClientAnswers(m, current) ==
  {ClientAnswer(m, "thrown", Null, NoSession, "TypeError"),
   ClientAnswer(m, "resolved", Null, NoSession, "AuthApiError")}
  \cup
  CASE m \in {"signInWithOtp", "resend", "signOut"} ->
         {ClientAnswer(m, "resolved", Null, NoSession, Null)}
    [] m = "updateUser" ->
         IF current.present THEN {ClientAnswer(m, "resolved", "user", NoSession, Null)} ELSE {}
    [] m = "signUp" ->
         {ClientAnswer(m, "resolved", "user", ns, Null) : ns \in NewSessions \cup {NoSession}}
    [] m \in {"verifyOtp", "signInWithPassword"} ->
         {ClientAnswer(m, "resolved", "user", ns, Null) : ns \in NewSessions}
    [] m = "getSession" ->
         {ClientAnswer(m, "resolved", Null, current, Null)}
    [] m = "getUser" ->
         IF current.present THEN {ClientAnswer(m, "resolved", "user", NoSession, Null)} ELSE {}

\* the session supabase.auth holds after it answered
ClientSession(answer, current) ==
  IF answer.kind = "thrown" \/ answer.error # Null THEN current
  ELSE IF answer.method = "signOut" THEN NoSession
  ELSE IF answer.method \in {"signUp", "verifyOtp", "signInWithPassword"} /\ answer.session.present
         THEN answer.session
  ELSE current

\* the helpers with their catch blocks rethrowing
AuthHelperResultNoCatch(fn, answer) ==
  IF answer.kind = "thrown"
    THEN Rejected(fn, <<answer.error>>, FALSE)
    ELSE CASE fn \in AuthResponseHelpers ->
                Resolved(fn, [user |-> answer.user, session |-> answer.session,
                              error |-> answer.error], FALSE)
           [] fn \in ErrorHelpers -> Resolved(fn, [error |-> answer.error], FALSE)
           [] fn = "getSession" -> Resolved(fn, answer.session, FALSE)
           [] fn = "getCurrentUser" -> Resolved(fn, answer.user, FALSE)

\* what a helper returns when supabase.auth answered its call
AuthHelperResult(fn, answer) ==
  IF answer.kind = "thrown"
    THEN CASE fn \in AuthResponseHelpers ->
                Resolved(fn, [user |-> Null, session |-> NoSession,
                              error |-> answer.error], FALSE)
           [] fn \in ErrorHelpers -> Resolved(fn, [error |-> answer.error], FALSE)
           [] fn = "getSession" -> Resolved(fn, NoSession, FALSE)
           [] fn = "getCurrentUser" -> Resolved(fn, Null, FALSE)
    ELSE CASE fn \in AuthResponseHelpers ->
                Resolved(fn, [user |-> answer.user, session |-> answer.session,
                              error |-> answer.error], FALSE)
           [] fn \in ErrorHelpers -> Resolved(fn, [error |-> answer.error], FALSE)
           [] fn = "getSession" -> Resolved(fn, answer.session, FALSE)
           [] fn = "getCurrentUser" -> Resolved(fn, answer.user, FALSE)

\* a call of an auth helper, from the call to the value its promise settles with
AuthCall(fn, type, answer) ==
  /\ answer \in ClientAnswers(clientMethod(fn, type), session)
  /\ lastResponse' = [method |-> answer.method, type |-> clientType(fn, type),
                       kind |-> answer.kind, user |-> answer.user,
                       session |-> answer.session, error |-> answer.error]
  /\ outcome' = AuthHelperResult(fn, answer)
  /\ session' = ClientSession(answer, session)
  /\ UNCHANGED <<fetches, appVars, dbVars>>

AuthNext ==
  \E fn \in AuthHelpers : \E type \in OtpTypes :
    \E answer \in ClientAnswers(clientMethod(fn, type), session) : AuthCall(fn, type, answer)

AuthSpec == Init /\ [][AuthNext]_vars

\* ------------------------------------------------------------------------
\* The database as a system of its own: rows are inserted, updated and
\* deleted as the policies and constraints allow
\* ------------------------------------------------------------------------
\* "Users can create their own reports": WITH CHECK (auth.uid() = user_id)
InsertReport(uid, r) ==
  /\ reportOwner[r] = NoUser
  /\ reportOwner' = [reportOwner EXCEPT ![r] = uid]
  /\ UNCHANGED <<report_parameters, report_summaries, family_connections, appVars, apiVars>>

\* "Users can delete their own reports"; ON DELETE CASCADE
DeleteReport(uid, r) ==
  /\ reportOwner[r] = uid
  /\ reportOwner' = [reportOwner EXCEPT ![r] = NoUser]
  /\ report_parameters' = report_parameters \ {r}
  /\ report_summaries' = {row \in report_summaries : row.report_id # r}
  /\ UNCHANGED <<family_connections, appVars, apiVars>>

\* the backend stores the parameters of a report (report_id REFERENCES reports)
InsertParameters(r) ==
  /\ r \in ExistingReports
  /\ r \notin report_parameters
  /\ report_parameters' = report_parameters \cup {r}
  /\ UNCHANGED <<reportOwner, report_summaries, family_connections, appVars, apiVars>>

\* the constraints of report_summaries without UNIQUE(report_id)
SummaryAcceptedNoUnique(row, others) ==
  /\ row.report_id = NoReport \/ row.report_id \in ExistingReports
  /\ row.status \in SummaryStatuses

\* the constraints of report_summaries on a new or updated row: report_id
\* REFERENCES reports (NULL allowed), UNIQUE(report_id), CHECK (status IN ...)
SummaryAccepted(row, others) ==
  /\ row.report_id = NoReport \/ row.report_id \in ExistingReports
  /\ row.report_id = NoReport \/ \A o \in others : o.report_id # row.report_id
  /\ row.status \in SummaryStatuses

FreeSummaryId == CHOOSE i \in SummaryIds : \A row \in report_summaries : row.id # i

\* INSERT INTO report_summaries by the backend (service role); a statement
\* that violates a constraint changes nothing
InsertSummary(r, st) ==
  /\ Cardinality(report_summaries) < MaxSummaries
  /\ LET row == [id |-> FreeSummaryId, report_id |-> r, status |-> st]
     IN report_summaries' = IF SummaryAccepted(row, report_summaries)
                              THEN report_summaries \cup {row}
                              ELSE report_summaries
  /\ UNCHANGED <<reportOwner, report_parameters, family_connections, appVars, apiVars>>

\* UPDATE report_summaries SET report_id = r, status = st WHERE id = row.id
UpdateSummary(row, r, st) ==
  /\ row \in report_summaries
  /\ LET new == [row EXCEPT !.report_id = r, !.status = st]
     IN report_summaries' = IF SummaryAccepted(new, report_summaries \ {row})
                              THEN (report_summaries \ {row}) \cup {new}
                              ELSE report_summaries
  /\ UNCHANGED <<reportOwner, report_parameters, family_connections, appVars, apiVars>>

\* "Users can create connections": WITH CHECK (auth.uid() = user_id);
\* UNIQUE(user_id, connected_user_id); status DEFAULT
InsertConnection(uid, other) ==
  /\ other # uid
  /\ Cardinality(family_connections) < MaxConnections
  /\ \A fc \in family_connections : ~(fc.user_id = uid /\ fc.connected_user_id = other)
  /\ family_connections' = family_connections \cup
       {[user_id |-> uid, connected_user_id |-> other, status |-> ConnectionStatusDefault]}
  /\ UNCHANGED <<reportOwner, report_parameters, report_summaries, appVars, apiVars>>

\* "Users can update their own connections"; CHECK (status IN (...))
UpdateConnection(uid, fc, st) ==
  /\ fc \in family_connections
  /\ OwnConnection(uid, fc)
  /\ st # fc.status
  /\ family_connections' = (family_connections \ {fc}) \cup {[fc EXCEPT !.status = st]}
  /\ UNCHANGED <<reportOwner, report_parameters, report_summaries, appVars, apiVars>>

\* "Users can delete their own connections"
DeleteConnection(uid, fc) ==
  /\ fc \in family_connections
  /\ OwnConnection(uid, fc)
  /\ family_connections' = family_connections \ {fc}
  /\ UNCHANGED <<reportOwner, report_parameters, report_summaries, appVars, apiVars>>

DbNext ==
  \/ \E uid \in Users : \E r \in ReportIds : InsertReport(uid, r)
  \/ \E uid \in Users : \E r \in ReportIds : DeleteReport(uid, r)
  \/ \E r \in ReportIds : InsertParameters(r)
  \/ \E r \in ReportIds : InsertSummary(r, SummaryStatusDefault)
  \/ \E uid \in Users : \E other \in Users : InsertConnection(uid, other)
  \/ \E uid \in Users, fc \in family_connections, st \in ConnectionStatuses : UpdateConnection(uid, fc, st)
  \/ \E uid \in Users : \E fc \in family_connections : DeleteConnection(uid, fc)

DbSpec == Init /\ [][DbNext]_vars

\* report_summaries with every statement the backend can issue on it
SummaryNext ==
  \/ \E uid \in Users : \E r \in ReportIds : InsertReport(uid, r)
  \/ \E uid \in Users : \E r \in ReportIds : DeleteReport(uid, r)
  \/ \E r \in {NoReport} \cup ReportIds : \E st \in SummaryStatusInputs : InsertSummary(r, st)
  \/ \E row \in report_summaries : \E r \in {NoReport} \cup ReportIds : \E st \in SummaryStatusInputs : UpdateSummary(row, r, st)

SummarySpec == Init /\ [][SummaryNext]_vars

\* Fairness: timers fire, pending requests settle, the background task of a
\* report ends, and a polling loop that keeps asking is eventually answered
\* with the report's status instead of an error
Fairness ==
  /\ \A l \in LoopIds :
       /\ WF_vars(PollTimerFired(l))
       /\ WF_vars(NavTimerFired(l))
       /\ WF_vars(StatusResolved(l) \/ StatusRejected(l))
       /\ SF_vars(StatusResolved(l))
  /\ \A r \in ReportIds : WF_vars(BackendComplete(r) \/ BackendFail(r))

FairSpec == Init /\ [][Next]_vars /\ Fairness

\* the browser's timers alone: a pending 500 ms navigation timer fires
TimerFairSpec == Init /\ [][Next]_vars /\ \A l \in LoopIds : WF_vars(NavTimerFired(l))

\* ------------------------------------------------------------------------
\* Properties
\* ------------------------------------------------------------------------
Started == 1..nLoops

\* C1: while ScanningScreen is mounted with a report id, polling is strictly
\* sequential: a loop issues a request only when it has none in flight and no
\* poll timer pending, every settled request of a mounted loop whose report
\* is still processing schedules exactly one next poll, and so at most one
\* request of the mounted loop is in flight and at most one poll timer is
\* pending.
C1_StepSequential ==
  \A l \in LoopIds :
    /\ inFlight'[l] > inFlight[l] =>
         /\ inFlight[l] = 0
         /\ inFlight'[l] = 1
         /\ pollTimer'[l] = 0
    /\ (/\ isMounted[l]
        /\ inFlight'[l] < inFlight[l]
        /\ reports[loopReport[l]] = "processing") =>
         /\ pollTimer'[l] = pollTimer[l] + 1
         /\ inFlight'[l] = 0
C1_AtMostOne ==
  /\ Cardinality({l \in Started : isMounted[l]}) <= 1
  /\ \A l \in LoopIds : inFlight[l] + pollTimer[l] <= 1
  /\ Cardinality({l \in LoopIds : pollTimer[l] > 0}) <= 1
  /\ \A l \in LoopIds : pollTimer[l] > 0 => isMounted[l]
C1_SequentialPolling == []C1_AtMostOne /\ [][C1_StepSequential]_vars
C1_Witness ==
  \E l \in Started :
    /\ isMounted[l] /\ pollTimer[l] = 1 /\ inFlight[l] = 0
    /\ progress >= 2 * ProgressStep
\* C1 as written, counting every request: while ScanningScreen is shown at
\* most one getReportStatus request is in flight. The cleanup cancels the
\* timer only, so the request of a torn-down loop stays in flight beside the
\* first request of its successor.
C1_OneRequestInFlight ==
  currentScreen = "scanning" =>
    Cardinality({l \in LoopIds : inFlight[l] > 0}) <= 1

\* C2: a 'completed' response received by a mounted loop ends that loop's
\* polling (no request in flight, no poll timer, and none ever again), sets
\* progress to 100, and, unless the loop is torn down first, the screen
\* becomes 'report-result'.
C2_Inv ==
  \A l \in Started :
    received[l] = "completed" =>
      /\ isMounted[l]
      /\ inFlight[l] = 0
      /\ pollTimer[l] = 0
      /\ progress = ProgressDone
      /\ navTimer[l] = "report-result"
C2_Step ==
  \A l \in LoopIds :
    /\ (received'[l] = "completed" /\ received[l] # "completed") =>
         progress' = ProgressDone
    /\ (received[l] = "completed" \/ (l \in Started /\ ~isMounted[l])) =>
         (inFlight'[l] <= inFlight[l] /\ pollTimer'[l] = 0)
    /\ (received[l] = "completed" /\ navCaller' = l /\ navTimer'[l] # navTimer[l]) =>
         currentScreen' = "report-result"
C2_Completed ==
  /\ []C2_Inv
  /\ [][C2_Step]_vars
  /\ \A l \in LoopIds :
       (isMounted[l] /\ received[l] = "completed")
         ~> \/ (navCaller = l /\ currentScreen = "report-result")
            \/ (~isMounted[l] /\ navCaller # l)
C2_Witness ==
  \E l \in Started :
    /\ loopReport[l] = currentReportId
    /\ reports[loopReport[l]] = "completed"
    /\ navCaller = l
    /\ currentScreen = "report-result"

\* C3: a 'failed' response received by a mounted loop ends that loop's
\* polling, and, unless the loop is torn down first, the screen becomes
\* 'scan-error'; the loop never navigates to 'report-result'.
C3_Inv ==
  \A l \in Started :
    received[l] = "failed" =>
      /\ isMounted[l]
      /\ inFlight[l] = 0
      /\ pollTimer[l] = 0
      /\ navTimer[l] = "scan-error"
C3_Step ==
  \A l \in LoopIds :
    /\ (received[l] = "failed" \/ (l \in Started /\ ~isMounted[l])) =>
         (inFlight'[l] <= inFlight[l] /\ pollTimer'[l] = 0)
    /\ (received[l] = "failed" /\ navCaller' = l /\ navTimer'[l] # navTimer[l]) =>
         currentScreen' = "scan-error"
    /\ (received[l] = "failed" /\ currentScreen' = "report-result") =>
         currentScreen = "report-result"
C3_Failed ==
  /\ []C3_Inv
  /\ [][C3_Step]_vars
  /\ \A l \in LoopIds :
       (isMounted[l] /\ received[l] = "failed")
         ~> \/ (navCaller = l /\ currentScreen = "scan-error")
            \/ (~isMounted[l] /\ navCaller # l)
C3_Witness ==
  \E l \in Started :
    /\ reports[loopReport[l]] = "failed"
    /\ navCaller = l
    /\ currentScreen = "scan-error"

\* C4: once a loop's cleanup has run (unmount or a new report id), the loop
\* issues no request, schedules no timer and never calls setCurrentScreen,
\* whatever was pending when the cleanup ran.
C4_Step ==
  \A l \in LoopIds :
    (l \in Started /\ ~isMounted[l]) =>
      /\ ~isMounted'[l]
      /\ inFlight'[l] <= inFlight[l]
      /\ pollTimer'[l] <= pollTimer[l]
      /\ navTimer'[l] \in {navTimer[l], "none"}
      /\ navCaller' = l => (navCaller = l /\ UNCHANGED currentScreen)
C4_NoActionAfterUnmount == [][C4_Step]_vars
\* a torn-down loop with a request in flight and its successor, torn down
\* too, with the 500 ms navigation pending
C4_Witness ==
  \E l, m \in Started :
    /\ ~isMounted[l] /\ inFlight[l] > 0
    /\ ~isMounted[m] /\ navTimer[m] # "none"

\* C5: with timers firing, requests settling and the backend eventually
\* answering with the final status, the app leaves the 'scanning' screen for
\* 'report-result' or 'scan-error' and every loop stops polling.
C5_EventuallyLeaves ==
  /\ (currentScreen = "scanning")
       ~> (currentScreen \in {"report-result", "scan-error"})
  /\ \A l \in LoopIds : <>[](inFlight[l] = 0 /\ pollTimer[l] = 0 /\ ~isMounted[l])
C5_Witness ==
  \E l \in Started :
    /\ navCaller = l
    /\ currentScreen \in {"report-result", "scan-error"}

\* C6: a report's status is processing, completed or failed; a new report is
\* 'processing'; the only changes are processing -> completed and
\* processing -> failed.
C6_Step ==
  \A r \in ReportIds :
    /\ (reports[r] = Absent /\ reports'[r] # Absent) => reports'[r] = "processing"
    /\ reports[r] \in {"completed", "failed"} => reports'[r] = reports[r]
    /\ reports[r] = "processing" => reports'[r] \in ReportStatuses
C10_PolledIsLatestUpload ==
  currentScreen = "scanning" =>
    /\ lastUploadId # NoReport
    /\ currentReportId = lastUploadId
    /\ \E l \in Started : isMounted[l] /\ loopReport[l] = lastUploadId
C10_Witness ==
  /\ currentScreen = "scanning"
  /\ lastUploadId = 2
  /\ \E l \in Started : ~isMounted[l] /\ loopReport[l] = 1 /\ inFlight[l] > 0

\* C7: every request the API client sends carries 'Authorization: Bearer
\* <access_token>' of the session current at the call; without a session or
\* an access token the call rejects with 'Not authenticated. Please log in.'
\* and sends nothing.
C7_Step ==
  /\ \A f \in fetches' \ fetches :
       /\ HasAccessToken(session)
       /\ f.headers.Authorization = <<"Bearer", session.access_token>>
  /\ ~HasAccessToken(session) =>
       /\ fetches' \subseteq fetches
       /\ (fetches' = fetches /\ outcome' # outcome) =>
            (outcome'.kind = "rejected" /\ outcome'.message = NotAuthenticated)
C7_BearerToken ==
  /\ [](\A f \in fetches :
          /\ Len(f.headers.Authorization) = 2
          /\ f.headers.Authorization[1] = "Bearer"
          /\ f.headers.Authorization[2] \in Tokens \ {""})
  /\ [][C7_Step]_vars
C7_Witness ==
  /\ \E f, g \in fetches : f.fn = "apiRequest" /\ g.fn = "uploadReport"
  /\ ~HasAccessToken(session)
  /\ outcome.kind = "rejected"
  /\ outcome.message = NotAuthenticated

\* C8: on a non-2xx answer apiRequest rejects, with the JSON body's message,
\* or 'Request failed' for a body that is not JSON, or 'API request failed:
\* <statusText>' for a JSON body without a (non-empty) message; a 204 answer
\* resolves with an empty object and no body is parsed.
C8_ClaimedMessage(resp) ==
  IF ~resp.body.json THEN <<"Request failed">>
  ELSE IF resp.body.message \in {<<>>, <<"">>}
         THEN <<"API request failed: ", resp.statusText>>
         ELSE resp.body.message
Connected(a, b) ==
  \E fc \in family_connections :
    /\ fc.status = "connected"
    /\ \/ (fc.user_id = a /\ fc.connected_user_id = b)
       \/ (fc.user_id = b /\ fc.connected_user_id = a)
PendingUploads == staleUploads + (IF uploading THEN 1 ELSE 0)
C11_Step ==
  /\ toast' = UploadErrorToast =>
       /\ PendingUploads > 0
       /\ currentScreen' = "scan-error"
       /\ currentReportId' = currentReportId
       /\ uploading' = FALSE
       /\ PendingUploads' = PendingUploads - 1
  /\ (currentScreen = "scan" /\ capturedImages = 0) =>
       /\ PendingUploads' <= PendingUploads
       /\ toast' = SelectImageToast =>
            UNCHANGED <<currentScreen, currentReportId, uploading, staleUploads>>
C11_UploadRejected == [][C11_Step]_vars
\* an upload rejected after an earlier one had stored a report id
C11_Witness ==
  /\ toast = UploadErrorToast
  /\ currentScreen = "scan-error"
  /\ currentReportId # NoReport
  /\ ~uploading

\* ------------------------------------------------------------------------
\* HistoryScreen as a system of its own: the user opens the screen, uses the
\* filter bar, the compare and delete modes; the backend answers
\* ------------------------------------------------------------------------
\* what HistoryScreen and the navigation to and from it leave alone
hsRest == <<capturedImages, uploading, staleUploads, lastUploadId, loopVars,
            histVars, reports, apiVars, dbVars, famVars, synVars>>

Range(seq) == {seq[i] : i \in 1..Len(seq)}
\* Array.prototype.filter(id => id !== x)
Without(seq, x) == SelectSeq(seq, LAMBDA id : id # x)

\* useState initial values; the state is discarded when the screen unmounts
FreshHistory ==
  /\ hsReports' = {}
  /\ hsLoading' = TRUE
  /\ filters' = InitialFilters
  /\ openFilter' = NoFilter
  /\ showMenu' = FALSE
  /\ selectedReports' = <<>>
  /\ isCompareMode' = FALSE
  /\ isDeleteMode' = FALSE
  /\ deletes' = EmptyBag
  /\ deleteRequests' = {}
  /\ confirmAnswer' = "none"

\* the effect on [filters, viewingMember]: loadReports up to its await
loadReports(f, member) ==
  /\ loads < MaxLoads
  /\ hsLoading' = TRUE
  /\ loads' = loads + 1
  /\ listRequest' = listReports(loadReportsParams(f, member))

\* TabBar.handleTabChange('history'): the screen mounts and its effect runs
TabToHistory ==
  /\ currentScreen \in {"home", "family"}
  /\ currentScreen' = "history"
  /\ FreshHistory
  /\ loads' = 1
  /\ listRequest' = listReports(loadReportsParams(InitialFilters, viewingMember))
  /\ toast' = NoToast
  /\ UNCHANGED <<currentReportId, viewingMember, hsRest>>

\* FamilyScreen: click on a connected member
FamilyMemberClick(member) ==
  /\ currentScreen = "family"
  /\ viewingMember' = member
  /\ currentScreen' = "history"
  /\ FreshHistory
  /\ loads' = 1
  /\ listRequest' = listReports(loadReportsParams(InitialFilters, member))
  /\ toast' = NoToast
  /\ UNCHANGED <<currentReportId, hsRest>>

\* TabBar.handleTabChange to another tab: the screen unmounts; what its pending
\* calls do afterwards changes no state of a mounted component
TabAway(tab) ==
  /\ currentScreen = "history"
  /\ currentScreen' = tab
  /\ FreshHistory
  /\ loads' = 0
  /\ listRequest' = NoRequest
  /\ toast' = NoToast
  /\ UNCHANGED <<currentReportId, viewingMember, hsRest>>

\* loadReports after its await: listReports resolved with items
LoadResolved(items) ==
  /\ currentScreen = "history"
  /\ loads > 0
  /\ loads' = loads - 1
  /\ hsReports' = items
  /\ hsLoading' = FALSE
  /\ listRequest' = NoRequest
  /\ deleteRequests' = {}
  /\ confirmAnswer' = "none"
  /\ toast' = NoToast
  /\ UNCHANGED <<currentScreen, currentReportId, viewingMember, filters, openFilter,
                 showMenu, selectedReports, isCompareMode, isDeleteMode, deletes, hsRest>>

\* loadReports: listReports rejected
LoadRejected ==
  /\ currentScreen = "history"
  /\ loads > 0
  /\ loads' = loads - 1
  /\ hsLoading' = FALSE
  /\ listRequest' = NoRequest
  /\ deleteRequests' = {}
  /\ confirmAnswer' = "none"
  /\ toast' = LoadFailedToast
  /\ UNCHANGED <<currentScreen, currentReportId, viewingMember, hsReports, filters,
                 openFilter, showMenu, selectedReports, isCompareMode, isDeleteMode,
                 deletes, hsRest>>

\* the button of a filter: opens or closes its option list
ToggleFilter(key) ==
  /\ currentScreen = "history"
  /\ openFilter' = IF openFilter = key THEN NoFilter ELSE key
  /\ listRequest' = NoRequest
  /\ deleteRequests' = {}
  /\ confirmAnswer' = "none"
  /\ toast' = NoToast
  /\ UNCHANGED <<currentScreen, currentReportId, viewingMember, hsReports, hsLoading,
                 filters, showMenu, selectedReports, isCompareMode, isDeleteMode,
                 loads, deletes, hsRest>>

\* click on an option of the open filter; the new filters object runs the effect
SelectOption(key, option) ==
  /\ currentScreen = "history"
  /\ openFilter = key
  /\ option \in filterOptions[key]
  /\ filters' = [filters EXCEPT ![key] = toUpperCase(option)]
  /\ openFilter' = NoFilter
  /\ loadReports(filters', viewingMember)
  /\ deleteRequests' = {}
  /\ confirmAnswer' = "none"
  /\ toast' = NoToast
  /\ UNCHANGED <<currentScreen, currentReportId, viewingMember, hsReports, showMenu,
                 selectedReports, isCompareMode, isDeleteMode, deletes, hsRest>>

\* "Back to my reports": setViewingMember(null) runs the effect
BackToMyReports ==
  /\ currentScreen = "history"
  /\ viewingMember # NoMember
  /\ viewingMember' = NoMember
  /\ loadReports(filters, NoMember)
  /\ deleteRequests' = {}
  /\ confirmAnswer' = "none"
  /\ toast' = NoToast
  /\ UNCHANGED <<currentScreen, currentReportId, hsReports, filters, openFilter, showMenu,
                 selectedReports, isCompareMode, isDeleteMode, deletes, hsRest>>

\* the menu button, rendered only for the user's own reports
ToggleMenu ==
  /\ currentScreen = "history"
  /\ viewingMember = NoMember
  /\ showMenu' = ~showMenu
  /\ listRequest' = NoRequest
  /\ deleteRequests' = {}
  /\ confirmAnswer' = "none"
  /\ toast' = NoToast
  /\ UNCHANGED <<currentScreen, currentReportId, viewingMember, hsReports, hsLoading,
                 filters, openFilter, selectedReports, isCompareMode, isDeleteMode,
                 loads, deletes, hsRest>>

\* "Delete Reports" in the open menu
toggleDeleteMode ==
  /\ currentScreen = "history"
  /\ viewingMember = NoMember
  /\ showMenu
  /\ isDeleteMode' = ~isDeleteMode
  /\ isCompareMode' = FALSE
  /\ selectedReports' = <<>>
  /\ showMenu' = FALSE
  /\ listRequest' = NoRequest
  /\ deleteRequests' = {}
  /\ confirmAnswer' = "none"
  /\ toast' = NoToast
  /\ UNCHANGED <<currentScreen, currentReportId, viewingMember, hsReports, hsLoading,
                 filters, openFilter, loads, deletes, hsRest>>

\* the Compare button outside a mode, or the floating button in compare mode,
\* which is enabled with exactly two reports selected
toggleCompareMode ==
  /\ currentScreen = "history"
  /\ \/ ~isCompareMode /\ ~isDeleteMode
     \/ isCompareMode /\ ~isDeleteMode /\ Len(selectedReports) = CompareLimit
  /\ isCompareMode' = ~isCompareMode
  /\ isDeleteMode' = FALSE
  /\ selectedReports' = <<>>
  /\ listRequest' = NoRequest
  /\ deleteRequests' = {}
  /\ confirmAnswer' = "none"
  /\ toast' = NoToast
  /\ UNCHANGED <<currentScreen, currentReportId, viewingMember, hsReports, hsLoading,
                 filters, openFilter, showMenu, loads, deletes, hsRest>>

\* the Cancel button of a mode
CancelMode ==
  /\ currentScreen = "history"
  /\ isCompareMode \/ isDeleteMode
  /\ isCompareMode' = FALSE
  /\ isDeleteMode' = FALSE
  /\ selectedReports' = <<>>
  /\ listRequest' = NoRequest
  /\ deleteRequests' = {}
  /\ confirmAnswer' = "none"
  /\ toast' = NoToast
  /\ UNCHANGED <<currentScreen, currentReportId, viewingMember, hsReports, hsLoading,
                 filters, openFilter, showMenu, loads, deletes, hsRest>>

\* handleReportClick without the limit of compare mode
HistoryReportClickNoLimit(reportId) ==
  /\ currentScreen = "history"
  /\ ~hsLoading
  /\ reportId \in hsReports
  /\ isCompareMode \/ isDeleteMode
  /\ selectedReports' = IF reportId \in Range(selectedReports)
                          THEN Without(selectedReports, reportId)
                          ELSE Append(selectedReports, reportId)
  /\ listRequest' = NoRequest
  /\ deleteRequests' = {}
  /\ confirmAnswer' = "none"
  /\ toast' = NoToast
  /\ UNCHANGED <<currentScreen, currentReportId, viewingMember, hsReports, hsLoading,
                 filters, openFilter, showMenu, isCompareMode, isDeleteMode, loads,
                 deletes, hsRest>>

\* HistoryScreen.handleReportClick, the whole handler: a click on a listed report
HistoryReportClick(reportId) ==
  /\ currentScreen = "history"
  /\ ~hsLoading
  /\ reportId \in hsReports
  /\ IF isCompareMode \/ isDeleteMode
       THEN /\ selectedReports' =
                 IF reportId \in Range(selectedReports)
                   THEN Without(selectedReports, reportId)
                 ELSE IF isCompareMode /\ Len(selectedReports) >= CompareLimit
                   THEN selectedReports
                 ELSE Append(selectedReports, reportId)
            /\ deleteRequests' = {}
            /\ confirmAnswer' = "none"
            /\ UNCHANGED <<currentScreen, currentReportId, hsReports, hsLoading, filters,
                           openFilter, showMenu, isCompareMode, isDeleteMode, loads,
                           deletes>>
       ELSE /\ currentReportId' = reportId
            /\ currentScreen' = "report-result"
            /\ FreshHistory
            /\ loads' = 0
  /\ listRequest' = NoRequest
  /\ toast' = NoToast
  /\ UNCHANGED <<viewingMember, hsRest>>

\* handleDelete that does not ask for confirmation
handleDeleteNoConfirm(confirmed) ==
  /\ currentScreen = "history"
  /\ isDeleteMode
  /\ listRequest' = NoRequest
  /\ IF viewingMember # NoMember
       THEN /\ toast' = SharedDeleteToast
            /\ confirmAnswer' = "none"
            /\ deleteRequests' = {}
            /\ UNCHANGED <<hsLoading, deletes>>
     ELSE IF selectedReports = <<>>
       THEN /\ toast' = NoToast
            /\ confirmAnswer' = "none"
            /\ deleteRequests' = {}
            /\ UNCHANGED <<hsLoading, deletes>>
       ELSE /\ BagCardinality(deletes) < MaxDeletes
            /\ toast' = NoToast
            /\ confirmAnswer' = IF confirmed THEN "accepted" ELSE "declined"
            /\ deleteRequests' = Range(selectedReports)
            /\ hsLoading' = TRUE
            /\ deletes' = deletes (+) SetToBag({Range(selectedReports)})
  /\ UNCHANGED <<currentScreen, currentReportId, viewingMember, hsReports, filters,
                 openFilter, showMenu, selectedReports, isCompareMode, isDeleteMode,
                 loads, hsRest>>

\* HistoryScreen.handleDelete up to its await. The floating button calls it
\* in delete mode only; delete mode is entered from the menu, which is
\* rendered only while viewingMember is null, and viewingMember is set only
\* by FamilyScreen, so the handler's first return is never taken
handleDelete(confirmed) ==
  /\ currentScreen = "history"
  /\ isDeleteMode
  /\ listRequest' = NoRequest
  /\ IF viewingMember # NoMember
       THEN /\ toast' = SharedDeleteToast
            /\ confirmAnswer' = "none"
            /\ deleteRequests' = {}
            /\ UNCHANGED <<hsLoading, deletes>>
     ELSE IF selectedReports = <<>>
       THEN /\ toast' = NoToast
            /\ confirmAnswer' = "none"
            /\ deleteRequests' = {}
            /\ UNCHANGED <<hsLoading, deletes>>
       ELSE /\ BagCardinality(deletes) < MaxDeletes
            /\ toast' = NoToast
            /\ confirmAnswer' = IF confirmed THEN "accepted" ELSE "declined"
            /\ deleteRequests' = IF confirmed THEN Range(selectedReports) ELSE {}
            /\ hsLoading' = (confirmed \/ hsLoading)
            /\ deletes' = IF confirmed THEN deletes (+) SetToBag({Range(selectedReports)})
                          ELSE deletes
  /\ UNCHANGED <<currentScreen, currentReportId, viewingMember, hsReports, filters,
                 openFilter, showMenu, selectedReports, isCompareMode, isDeleteMode,
                 loads, hsRest>>

\* a catch block that also leaves delete mode and clears the selection
DeleteRejectedLeavesMode(selected) ==
  /\ currentScreen = "history"
  /\ BagIn(selected, deletes)
  /\ deletes' = deletes (-) SetToBag({selected})
  /\ hsLoading' = FALSE
  /\ isDeleteMode' = FALSE
  /\ selectedReports' = <<>>
  /\ toast' = DeleteFailedToast
  /\ listRequest' = NoRequest
  /\ deleteRequests' = {}
  /\ confirmAnswer' = "none"
  /\ UNCHANGED <<currentScreen, currentReportId, viewingMember, hsReports, filters,
                 openFilter, showMenu, isCompareMode, loads, hsRest>>

\* handleDelete after its await: every deleteReport resolved
DeleteResolved(selected) ==
  /\ currentScreen = "history"
  /\ BagIn(selected, deletes)
  /\ deletes' = deletes (-) SetToBag({selected})
  /\ hsReports' = hsReports \ selected
  /\ isDeleteMode' = FALSE
  /\ selectedReports' = <<>>
  /\ toast' = DeletedToast
  /\ listRequest' = NoRequest
  /\ deleteRequests' = {}
  /\ confirmAnswer' = "none"
  /\ UNCHANGED <<currentScreen, currentReportId, viewingMember, hsLoading, filters,
                 openFilter, showMenu, isCompareMode, loads, hsRest>>

\* handleDelete's catch: a deleteReport rejected
DeleteRejected(selected) ==
  /\ currentScreen = "history"
  /\ BagIn(selected, deletes)
  /\ deletes' = deletes (-) SetToBag({selected})
  /\ hsLoading' = FALSE
  /\ toast' = DeleteFailedToast
  /\ listRequest' = NoRequest
  /\ deleteRequests' = {}
  /\ confirmAnswer' = "none"
  /\ UNCHANGED <<currentScreen, currentReportId, viewingMember, hsReports, filters,
                 openFilter, showMenu, selectedReports, isCompareMode, isDeleteMode,
                 loads, hsRest>>

\* the filter bar: the user opens the screen and selects filter options
FilterNext ==
  \/ TabToHistory
  \/ \E m \in Members : FamilyMemberClick(m)
  \/ \E tab \in {"home", "family"} : TabAway(tab)
  \/ \E k \in 0..MaxListed : LoadResolved(1..k)
  \/ LoadRejected
  \/ \E key \in FilterKeys : ToggleFilter(key)
  \/ \E key \in FilterKeys : \E option \in filterOptions[key] : SelectOption(key, option)
  \/ BackToMyReports

FilterSpec == Init /\ [][FilterNext]_vars

\* the compare and delete modes; of the filter bar the user only selects
\* "All Types" again, which reloads the list under the same filters
HistNext ==
  \/ TabToHistory
  \/ \E m \in Members : FamilyMemberClick(m)
  \/ \E tab \in {"home", "family"} : TabAway(tab)
  \/ \E k \in 0..MaxListed : LoadResolved(1..k)
  \/ LoadRejected
  \/ ToggleFilter("type")
  \/ SelectOption("type", "All Types")
  \/ BackToMyReports
  \/ ToggleMenu
  \/ toggleDeleteMode
  \/ toggleCompareMode
  \/ CancelMode
  \/ \E r \in ListedIds : HistoryReportClick(r)
  \/ \E confirmed \in BOOLEAN : handleDelete(confirmed)
  \/ \E selected \in BagToSet(deletes) : DeleteResolved(selected)
  \/ \E selected \in BagToSet(deletes) : DeleteRejected(selected)

HistSpec == Init /\ [][HistNext]_vars

\* ------------------------------------------------------------------------
\* Claims about HistoryScreen's filters
\* ------------------------------------------------------------------------
\* the time_range that belongs to a time option
C12_TimeRange(option) ==
  CASE option = "Last 7 Days" -> "7d"
    [] option = "Last Month" -> "30d"
    [] option = "Last 3 Months" -> "90d"
    [] option = "All Time" -> "all"

\* C12: every listReports request that HistoryScreen sends after the user
\* picked a time option carries the time_range that belongs to the option
\* ('Last 7 Days' -> '7d', 'Last Month' -> '30d', 'Last 3 Months' -> '90d',
\* 'All Time' -> 'all'), and after the user picked a report type other than
\* 'All Types' it carries that type as report_type
C12_Step ==
  listRequest' # NoRequest =>
    /\ \A option \in filterOptions.time :
         filters'.time = toUpperCase(option) =>
           QueryValue(listRequest', "time_range") = C12_TimeRange(option)
    /\ \A option \in filterOptions.type \ {"All Types"} :
         filters'.type = toUpperCase(option) =>
           QueryValue(listRequest', "report_type") \in {option, toUpperCase(option)}
C12_FiltersApplied == [][C12_Step]_vars

\* C13: every listReports request of HistoryScreen has flag_level absent or
\* one of green, yellow, red, and time_range one of 7d, 30d, 90d, all
C13_RequestValues ==
  listRequest # NoRequest =>
    /\ QueryValue(listRequest, "flag_level") \in {Undefined, "green", "yellow", "red"}
    /\ QueryValue(listRequest, "time_range") \in {"7d", "30d", "90d", "all"}

\* ------------------------------------------------------------------------
\* FamilyScreen as a system of its own: family_connections rows change, the
\* screen fetches the members of the signed-in user and groups them
\* ------------------------------------------------------------------------
MaxFamFetches == 1   \* getFamilyMembers calls awaiting their answer

Me == "u1"                         \* the signed-in user
MemberStatuses == {"connected", "pending-sent", "pending-received"}

\* GET /family/members: how the backend names a row's status for the user who asks
ApiConnectionStatus(uid, fc) ==
  CASE fc.status = "connected" -> "connected"
    [] fc.status = "pending_sent" ->
         IF fc.user_id = uid THEN "pending-sent" ELSE "pending-received"
    [] fc.status = "pending_received" ->
         IF fc.user_id = uid THEN "pending-received" ELSE "pending-sent"

\* GET /family/members: one FamilyMember per connection of the user; the
\* backend either names the status as the FamilyMember type declares it or
\* hands out the column as it is stored
FamilyMembersOf(uid, translated) ==
  {[connection_id |-> <<fc.user_id, fc.connected_user_id>>,
    user_id |-> IF fc.user_id = uid THEN fc.connected_user_id ELSE fc.user_id,
    connection_status |-> IF translated THEN ApiConnectionStatus(uid, fc) ELSE fc.status] :
     fc \in {c \in family_connections : OwnConnection(uid, c)}}

\* a grouping that does not look at connection_status
connectedMembersAll(ms) == ms

\* FamilyScreen: "Group members"
connectedMembers(ms) == {m \in ms : m.connection_status = "connected"}
pendingSent(ms) == {m \in ms : m.connection_status = "pending-sent"}
pendingReceived(ms) == {m \in ms : m.connection_status = "pending-received"}

famRest == <<currentReportId, capturedImages, uploading, staleUploads, lastUploadId,
             loopVars, histVars, reports, toast, apiVars, dbVars, hsVars, synVars>>

\* TabBar.handleTabChange('family'): the screen mounts, its effect calls fetchMembers
TabToFamily ==
  /\ currentScreen = "home"
  /\ currentScreen' = "family"
  /\ members' = {}
  /\ famLoading' = TRUE
  /\ famFetches' = 1
  /\ UNCHANGED famRest

\* TabBar.handleTabChange('home'): the screen unmounts
FamilyToHome ==
  /\ currentScreen = "family"
  /\ currentScreen' = "home"
  /\ members' = {}
  /\ famLoading' = TRUE
  /\ famFetches' = 0
  /\ UNCHANGED famRest

\* fetchMembers after its await: getFamilyMembers resolved
fetchMembersResolved(translated) ==
  /\ currentScreen = "family"
  /\ famFetches > 0
  /\ famFetches' = famFetches - 1
  /\ members' = FamilyMembersOf(Me, translated)
  /\ famLoading' = FALSE
  /\ UNCHANGED <<currentScreen, famRest>>

\* fetchMembers' catch: getFamilyMembers rejected
fetchMembersRejected ==
  /\ currentScreen = "family"
  /\ famFetches > 0
  /\ famFetches' = famFetches - 1
  /\ famLoading' = FALSE
  /\ UNCHANGED <<currentScreen, members, famRest>>

FamNext ==
  \/ TabToFamily
  \/ FamilyToHome
  \/ \E translated \in BOOLEAN : fetchMembersResolved(translated)
  \/ fetchMembersRejected
  \/ \E uid \in Users : \E other \in Users : InsertConnection(uid, other)
  \/ \E uid \in Users : \E fc \in family_connections : \E st \in ConnectionStatuses : UpdateConnection(uid, fc, st)
  \/ \E uid \in Users : \E fc \in family_connections : DeleteConnection(uid, fc)

FamSpec == Init /\ [][FamNext]_vars

\* the groups of FamilyScreen that hold a member
GroupsOf(m) ==
  {g \in {"connected", "sent", "received"} :
     \/ g = "connected" /\ m \in connectedMembers(members)
     \/ g = "sent" /\ m \in pendingSent(members)
     \/ g = "received" /\ m \in pendingReceived(members)}

SummariesOf(r) == {row \in report_summaries : row.report_id = r}

\* C15: every report has at most one report_summaries row, and the status of
\* every report_summaries row is one of pending, completed, failed
C15_OneSummaryPerReport ==
  /\ \A r \in ReportIds : Cardinality(SummariesOf(r)) <= 1
  /\ \A row \in report_summaries : row.status \in {"pending", "completed", "failed"}

C15_Witness ==
  /\ Cardinality(report_summaries) = MaxSummaries
  /\ \E r \in ReportIds : \E row \in SummariesOf(r) : row.status = "pending"
  /\ \E row \in report_summaries : row.status = "failed"

\* ------------------------------------------------------------------------
\* Claims about failed status requests
\* ------------------------------------------------------------------------
\* C16: when a status request of a mounted ScanningScreen throws, the screen
\* does not navigate, no navigation is scheduled and exactly one new poll is
\* scheduled; whatever the number of failed polls, a mounted polling loop
\* that has not received completed or failed has exactly one poll pending
\* or scheduled, so it keeps polling
C16_Step ==
  \A l \in LoopIds :
    (StatusRejected(l) /\ isMounted[l]) =>
      /\ currentScreen' = currentScreen
      /\ currentReportId' = currentReportId
      /\ isMounted'[l]
      /\ navTimer' = navTimer
      /\ pollTimer'[l] = pollTimer[l] + 1
      /\ inFlight'[l] = inFlight[l] - 1
      /\ \A k \in LoopIds \ {l} : pollTimer'[k] = pollTimer[k] /\ inFlight'[k] = inFlight[k]
C16_KeepsPolling ==
  \A l \in Started :
    (isMounted[l] /\ received[l] \notin {"completed", "failed"}) =>
      inFlight[l] + pollTimer[l] = 1
C16_FailedPollRetries == []C16_KeepsPolling /\ [][C16_Step]_vars

\* a mounted loop that never received a status has a poll scheduled: its
\* first request threw
C16_Witness ==
  \E l \in Started :
    /\ currentScreen = "scanning"
    /\ isMounted[l]
    /\ received[l] = "none"
    /\ pollTimer[l] = 1
    /\ inFlight[l] = 0

\* ------------------------------------------------------------------------
\* ReportSynthesis as a system of its own: the component fetches the
\* synthesis of one report, polls while it is pending, the user retries, the
\* backend generates
\* ------------------------------------------------------------------------
MaxSynFetches == 2   \* getReportSynthesis calls awaiting their answer

\* what the synthesis routes answer with: the three statuses of
\* report_summaries and the status of a report without a row
SynthesisAnswers == {"not_generated", "pending", "completed", "failed"}

synRest == <<uiVars, loopVars, histVars, reports, apiVars, dbVars, hsVars, famVars>>

RemoveAt(seq, i) == SubSeq(seq, 1, i - 1) \o SubSeq(seq, i + 1, Len(seq))

\* the polling effect on [synthesis?.status]: its cleanup clears the
\* interval, its body sets one if the status is 'pending'
PollingEffect(st) == interval' = (st = "pending")

\* fetchSynthesis up to its await; the backend answers with the status it
\* has when the request arrives, the answer reaches the client later
fetchSynthesis(retry) ==
  /\ Len(synFetches) < MaxSynFetches
  /\ synLoading' = TRUE
  /\ synFetches' = Append(synFetches, [data |-> synBackend', retry |-> retry])

\* ReportResultScreen renders <ReportSynthesis reportId=...>: the mount
\* effect calls fetchSynthesis, the polling effect sees no synthesis
SynthesisMount ==
  /\ ~synMounted
  /\ synMounted' = TRUE
  /\ synthesis' = NoSynthesis
  /\ isGenerating' = FALSE
  /\ generating' = FALSE
  /\ UNCHANGED synBackend
  /\ fetchSynthesis(FALSE)
  /\ PollingEffect(NoSynthesis)
  /\ settled' = FALSE
  /\ synOut' = "mount"
  /\ toast' = NoToast
  /\ UNCHANGED synRest

\* the user leaves the report: the component unmounts, the cleanup of the
\* polling effect clears the interval; pending calls change no state afterwards
SynthesisUnmount ==
  /\ synMounted
  /\ synMounted' = FALSE
  /\ synthesis' = NoSynthesis
  /\ synLoading' = TRUE
  /\ isGenerating' = FALSE
  /\ generating' = FALSE
  /\ synFetches' = <<>>
  /\ interval' = FALSE
  /\ settled' = FALSE
  /\ synOut' = "unmount"
  /\ toast' = NoToast
  /\ UNCHANGED <<synBackend, synRest>>

\* setInterval(fetchSynthesis, 3000) fires
IntervalFired ==
  /\ synMounted
  /\ interval
  /\ UNCHANGED synBackend
  /\ fetchSynthesis(FALSE)
  /\ synOut' = "interval"
  /\ toast' = NoToast
  /\ UNCHANGED <<synMounted, synthesis, isGenerating, interval, generating, settled, synRest>>

\* fetchSynthesis after its await: getReportSynthesis resolved; of handleRetry's
\* fetch the finally block follows
FetchResolved(i) ==
  /\ synMounted
  /\ i \in 1..Len(synFetches)
  /\ synFetches' = RemoveAt(synFetches, i)
  /\ synthesis' = synFetches[i].data
  /\ synLoading' = FALSE
  /\ isGenerating' = IF synFetches[i].retry THEN FALSE ELSE isGenerating
  /\ PollingEffect(synFetches[i].data)
  /\ settled' = (settled \/ synFetches[i].data # "pending")
  /\ synOut' = "resolved"
  /\ toast' = NoToast
  /\ UNCHANGED <<synMounted, generating, synBackend, synRest>>

\* fetchSynthesis' catch: getReportSynthesis rejected
FetchRejected(i) ==
  /\ synMounted
  /\ i \in 1..Len(synFetches)
  /\ synFetches' = RemoveAt(synFetches, i)
  /\ synLoading' = FALSE
  /\ isGenerating' = IF synFetches[i].retry THEN FALSE ELSE isGenerating
  /\ synOut' = "rejected"
  /\ toast' = NoToast
  /\ UNCHANGED <<synMounted, synthesis, interval, generating, synBackend, settled, synRest>>

\* the button of the failed or missing state is shown and enabled
RetryShown ==
  /\ synMounted
  /\ ~(synLoading /\ synthesis = NoSynthesis)
  /\ synthesis \in {NoSynthesis, "failed", "missing", "not_generated"}
  /\ ~isGenerating

\* handleRetry up to its await of generateReportSynthesis
handleRetry ==
  /\ RetryShown
  /\ isGenerating' = TRUE
  /\ generating' = TRUE
  /\ settled' = FALSE
  /\ synOut' = "retry"
  /\ toast' = RetryInfoToast
  /\ UNCHANGED <<synMounted, synthesis, synLoading, interval, synFetches, synBackend, synRest>>

\* POST /generate-synthesis answered: the backend set the status to pending;
\* handleRetry goes on with fetchSynthesis
GenerateResolved ==
  /\ synMounted
  /\ generating
  /\ generating' = FALSE
  /\ synBackend' = "pending"
  /\ fetchSynthesis(TRUE)
  /\ synOut' = "generate"
  /\ toast' = NoToast
  /\ UNCHANGED <<synMounted, synthesis, isGenerating, interval, settled, synRest>>

\* handleRetry's catch and finally: generateReportSynthesis rejected
GenerateRejected ==
  /\ synMounted
  /\ generating
  /\ generating' = FALSE
  /\ isGenerating' = FALSE
  /\ synOut' = "generate-failed"
  /\ toast' = RetryFailedToast
  /\ UNCHANGED <<synMounted, synthesis, synLoading, interval, synFetches, synBackend,
                 settled, synRest>>

\* the backend's generation ends
BackendGenerated(result) ==
  /\ synBackend = "pending"
  /\ synBackend' = result
  /\ synOut' = "backend"
  /\ UNCHANGED <<synMounted, synthesis, synLoading, isGenerating, interval, synFetches,
                 generating, settled, toast, synRest>>

SynNext ==
  \/ SynthesisMount
  \/ SynthesisUnmount
  \/ IntervalFired
  \/ \E i \in 1..MaxSynFetches : FetchResolved(i)
  \/ \E i \in 1..MaxSynFetches : FetchRejected(i)
  \/ handleRetry
  \/ GenerateResolved
  \/ GenerateRejected
  \/ \E result \in {"completed", "failed"} : BackendGenerated(result)

SynSpec == Init /\ [][SynNext]_vars

\* C17: the 3 s interval of ReportSynthesis is set exactly when the component
\* is mounted and the stored synthesis status is 'pending'; once a fetch has
\* stored a status other than pending, no interval is set and no fetch is
\* sent until the user acts; a failed fetch leaves the stored synthesis unchanged
C17_Inv ==
  /\ interval <=> (synMounted /\ synthesis = "pending")
  /\ settled => ~interval
C17_Step ==
  /\ (settled /\ settled') => Len(synFetches') <= Len(synFetches)
  /\ synOut' = "rejected" => synthesis' = synthesis
C17_PollsOnlyWhilePending == []C17_Inv /\ [][C17_Step]_vars

\* ------------------------------------------------------------------------
\* Claims about HistoryScreen's compare and delete modes
\* ------------------------------------------------------------------------
\* C18: a step of HistoryScreen calls deleteReport only if no member's
\* reports are shown (viewingMember is null), the selection is not empty and
\* the confirmation was accepted; it then calls it for the selected reports
C18_Step ==
  /\ deleteRequests' # {} =>
       /\ viewingMember = NoMember
       /\ selectedReports # <<>>
       /\ confirmAnswer' = "accepted"
       /\ deleteRequests' = Range(selectedReports)
  /\ (viewingMember # NoMember \/ selectedReports = <<>> \/ confirmAnswer' = "declined") =>
       /\ deleteRequests' = {}
       /\ BagCardinality(deletes') <= BagCardinality(deletes)
C18_NoDeleteOfSharedReports == [][C18_Step]_vars

\* handleDelete ran in delete mode with reports selected and the confirmation
\* was declined: no request went out
C18_Witness ==
  /\ currentScreen = "history"
  /\ isDeleteMode
  /\ selectedReports # <<>>
  /\ confirmAnswer = "declined"
  /\ deleteRequests = {}
  /\ deletes = EmptyBag

\* C19: in compare mode the selection holds at most 2 report ids, and it
\* never holds an id twice; in compare or delete mode a click on a selected
\* report removes it, a click on another report adds it, except in compare
\* mode with 2 reports selected, where the click changes nothing
C19_Inv ==
  /\ isCompareMode => Len(selectedReports) <= 2
  /\ Cardinality(Range(selectedReports)) = Len(selectedReports)
C19_Step ==
  \A r \in ListedIds :
    ((isCompareMode \/ isDeleteMode) /\ HistoryReportClick(r)) =>
      IF r \in Range(selectedReports)
        THEN Range(selectedReports') = Range(selectedReports) \ {r}
      ELSE IF isCompareMode /\ Len(selectedReports) = 2
        THEN selectedReports' = selectedReports
      ELSE Range(selectedReports') = Range(selectedReports) \cup {r}
C19_Selection == []C19_Inv /\ [][C19_Step]_vars

\* compare mode with two reports selected and a third one listed
C19_Witness ==
  /\ currentScreen = "history"
  /\ isCompareMode
  /\ ~hsLoading
  /\ Len(selectedReports) = 2
  /\ hsReports \ Range(selectedReports) # {}

\* C20: the step in which handleDelete's deletions fail leaves the report
\* list, delete mode and the selection as they are and sets loading to false;
\* the step in which they all succeeded removes the reports selected at the
\* call from the list, leaves delete mode and clears the selection
C20_Step ==
  /\ toast' = DeleteFailedToast =>
       /\ hsReports' = hsReports
       /\ isDeleteMode' = isDeleteMode
       /\ isCompareMode' = isCompareMode
       /\ selectedReports' = selectedReports
       /\ hsLoading' = FALSE
  /\ toast' = DeletedToast =>
       /\ \E selected \in BagToSet(deletes) : hsReports' = hsReports \ selected
       /\ isDeleteMode' = FALSE
       /\ selectedReports' = <<>>
C20_DeleteAllOrNothing == [][C20_Step]_vars

\* a deletion failed: still in delete mode with the same selection
C20_Witness ==
  /\ currentScreen = "history"
  /\ toast = DeleteFailedToast
  /\ isDeleteMode
  /\ selectedReports # <<>>
  /\ Range(selectedReports) \subseteq hsReports
  /\ ~hsLoading

\* ------------------------------------------------------------------------
\* Claims about the auth helpers
\* ------------------------------------------------------------------------
\* supabase.auth reported or threw a failure in the latest helper call
AuthFailed == lastResponse.kind = "thrown" \/ lastResponse.error # Null

\* C21: a call of an auth helper never rejects; when supabase.auth reported
\* or threw a failure, the result's error field is that failure and its user
\* and session fields, where it has them, are null; getSession and
\* getCurrentUser return null then
C21_AuthHelpersNeverReject ==
  outcome.fn \in AuthHelpers =>
    /\ outcome.kind = "resolved"
    /\ AuthFailed =>
         /\ outcome.fn \in AuthResponseHelpers =>
              /\ outcome.value.error = lastResponse.error
              /\ outcome.value.user = Null
              /\ outcome.value.session = NoSession
         /\ outcome.fn \in ErrorHelpers => outcome.value = [error |-> lastResponse.error]
         /\ outcome.fn = "getSession" => outcome.value = NoSession
         /\ outcome.fn = "getCurrentUser" => outcome.value = Null

\* signIn returned after supabase.auth.signInWithPassword threw
C21_Witness ==
  /\ outcome.fn = "signIn"
  /\ lastResponse.kind = "thrown"
  /\ outcome.kind = "resolved"
  /\ outcome.value = [user |-> Null, session |-> NoSession, error |-> "TypeError"]

\* ------------------------------------------------------------------------
\* Claims about ScanningScreen without a report id, its progress and its
\* polling loop
\* ------------------------------------------------------------------------
\* C22: ScanningScreen is never left showing without a report id and no run
\* of its effect polls for a null id; the step in which it mounts without a
\* report id ends on 'scan', sends no status request and sets no timer
C22_Inv ==
  /\ currentScreen = "scanning" => currentReportId # NoReport
  /\ \A l \in 1..nLoops : loopReport[l] # NoReport
C22_Step ==
  \A live \in BOOLEAN :
    UploadResolvedWithoutId(live) =>
      /\ currentScreen' = "scan"
      /\ nLoops' = nLoops
      /\ \A l \in LoopIds : inFlight'[l] <= inFlight[l] /\ pollTimer'[l] <= pollTimer[l]
      /\ navTimer' = navTimer
C22_NoIdBackToScan == []C22_Inv /\ [][C22_Step]_vars

\* an upload was answered without a report id: the app is back on 'scan'
C22_Witness ==
  /\ toast = UploadedToast
  /\ lastUploadId = NoReport
  /\ currentReportId = NoReport
  /\ currentScreen = "scan"

\* a mounted run of the effect received status s in this step
ReceivedInStep(s) ==
  \E l \in LoopIds :
    /\ l \in 1..nLoops
    /\ isMounted[l]
    /\ inFlight[l] > 0
    /\ reports[loopReport[l]] = s
    /\ StatusResolved(l)

\* C23: progress is within 0..100 and above 90 only as 100; while the screen
\* stays mounted it never decreases, and it changes only when a response is
\* received: by 5 up to 90 on 'processing', to 100 on 'completed'
C23_Inv ==
  /\ progress \in 0..ProgressDone
  /\ progress > ProgressCap => progress = ProgressDone
C23_Step ==
  /\ (currentScreen = "scanning" /\ currentScreen' = "scanning") => progress' >= progress
  /\ (currentScreen' = "scanning" /\ progress' > progress) =>
       \/ ReceivedInStep("processing") /\ progress' = Min(progress + ProgressStep, ProgressCap)
       \/ ReceivedInStep("completed") /\ progress' = ProgressDone
  /\ ReceivedInStep("processing") => progress' = Min(progress + ProgressStep, ProgressCap)
C23_ProgressMonotonic == []C23_Inv /\ [][C23_Step]_vars

\* C24: while ScanningScreen is shown, the run of its effect that is mounted
\* has a status request in flight, a poll timer pending or a navigation to
\* 'report-result' or 'scan-error' pending, whichever of 'processing',
\* 'completed' and 'failed' the backend answered with
C24_NeverIdle ==
  currentScreen = "scanning" =>
    /\ currentReportId # NoReport
    /\ \E l \in Live(LoopRec) :
         /\ loopReport[l] = currentReportId
         /\ \/ inFlight[l] > 0
            \/ pollTimer[l] > 0
            \/ navTimer[l] \in {"report-result", "scan-error"}

\* the mounted loop was answered 'failed': nothing is pending but the
\* navigation to 'scan-error'
C24_Witness ==
  /\ currentScreen = "scanning"
  /\ toast = ProcessingFailedToast
  /\ \E l \in Live(LoopRec) :
       /\ reports[loopReport[l]] = "failed"
       /\ inFlight[l] = 0
       /\ pollTimer[l] = 0
       /\ navTimer[l] = "scan-error"

====
